---- MODULE Spec2Model ----
(***************************************************************************)
(* The CAP alert ingestion pipeline of the Decibel backend:                *)
(*   - services/capScheduler.ts : per-source timers, the fetch cycle, the  *)
(*     differential writer and the janitor (cleanupOldAlerts);             *)
(*   - services/capParser.ts    : fetchAlertsFromSource, isAlertActive;    *)
(*   - routes/api/capAlerts.ts  : GET /cap-alerts/fetch, POST /refresh;    *)
(*   - models/CAPSource.ts, models/User.ts (CAPAlert schema): the store.   *)
(*                                                                         *)
(* Every `await` of the code is one step of the model: a handler runs      *)
(* atomically from one await to the next, and handlers interleave at       *)
(* awaits, as on the Node.js event loop.                                   *)
(*                                                                         *)
(* Time is a counter `now`.  One unit is the fetchInterval of the source,  *)
(* taken to be no shorter than the parser's response-cache TTL (5 min), so *)
(* the cache never constrains what two fetches one unit apart return.      *)
(***************************************************************************)
EXTENDS Integers, Sequences, FiniteSets, TLC

\* ------------------------------------------------------------------ bounds
MaxTime == 3        \* the clock runs from 1 to MaxTime
MaxCycles == 2      \* scheduler cycles started over a run
MaxRefresh == 1     \* POST /cap-alerts/refresh requests over a run
MaxFetch == 1       \* GET /cap-alerts/fetch requests over a run
MaxAdmin == 2       \* /cap-sources requests served at once
MaxAdminReq == 2    \* /cap-sources requests each of them serves over a run
MaxDetail == 2      \* detail fetches of the parser in flight at once
MaxDetailReq == 2   \* detail fetches each of them makes over a run
MaxTokens == 6      \* tokens of a polygon string
MaxItems == 2       \* items of the parser's loop in flight at once (SpecCache)
MaxLookups == 2     \* cache lookups each of them makes over a run (SpecCache)
MaxCacheTime == 5   \* the clock of SpecCache runs from 1 to MaxCacheTime
MaxRequests == 2    \* requests made through the axios instance (SpecRetry)
MaxRssItems == 22   \* items of an RSS feed (SpecPace)
MaxHandles == 4     \* interval timers set over a run (SpecTimers)
MaxStarts == 2      \* calls of start() (SpecTimers)
MaxUpdates == 2     \* calls of updateSource() (SpecTimers)
MaxRemoves == 1     \* calls of removeSourceInterval() from outside (SpecTimers)
MaxCallbacks == 1   \* firings of interval timers (SpecTimers)
MaxDeletes == 1     \* DELETE /cap-sources requests (SpecTimers)
MaxPaceClock == 300 \* the millisecond clock of SpecPace stops here

\* -------------------------------------------------------- program constants
FetchInterval == 1  \* source.fetchInterval, the unit of time
CACHE_TTL == 2      \* capParser.CACHE_TTL, 5 minutes, in the ticks of SpecCache
Retries == 3        \* axiosRetry's `retries`
maxAlertsPerBatch == 20 \* capParser.fetchAlertsFromSource
ItemDelay == 100    \* the setTimeout of an item with index > 0, in ms

\* OLD_ALERT_THRESHOLD, 30 days, in units of 5 minutes
OLD_ALERT_THRESHOLD == 30 * 24 * 12

SourceIds == {"A", "B"}

\* The latitudes and longitudes polygon strings are written with (95 is no
\* latitude).
Lats == {10, 20, 95}
Lons == {20, 30}

\* The identifiers publishers use.
Identifiers == {"x", "m"}

NoTime == 0         \* an unset Date or timer (lastFetched of a source never fetched)
NoError == "none"   \* lastErrorMessage undefined
NoDoc == [none |-> TRUE]

\* --------------------------------------------------- what publishers send
\* A parsed CAP alert: identifier, sent, one expires per info block, and
\* whether its area carries a polygon that convertToGeoJSON accepts.
X1 == [identifier |-> "x", sent |-> 1, info |-> <<2>>, poly |-> TRUE]
X2 == [identifier |-> "x", sent |-> 2, info |-> <<4>>, poly |-> TRUE]
M1 == [identifier |-> "m", sent |-> 1, info |-> <<0, 4>>, poly |-> FALSE]

\* The alert lists one index feed can yield.
Feeds == {<<X1>>, <<X2>>, <<M1>>, <<X1, M1>>}

VARIABLES
    now,          \* the clock
    sources,      \* store: sourceId -> source document
    alerts,       \* store: the set of alert documents
    nextId,       \* next _id the store assigns
    events,       \* what io.emit has sent, in order
    isRunning,    \* CAPSchedulerService.isRunning
    startPc,      \* where start() is: "none", "loading", "done"
    intervals,    \* CAPSchedulerService.intervals: sourceId -> when its timer
                  \* fires next (NoTime: no entry)
    cleanupTimer, \* CAPSchedulerService.cleanupTimer is set
    stats,        \* CAPSchedulerService.stats
    started,      \* number of fetch cycles begun
    cyc,          \* the fetch cycles, in the order they began
    jan,          \* the cleanupOldAlerts call in flight
    ref,          \* the POST /cap-alerts/refresh request in flight
    get,          \* the GET /cap-alerts/fetch request in flight
    objs,         \* capParser.responseCache and the alert objects it hands out:
                  \* <<identifier, time of the detail fetch>> -> the object
    adm,          \* the /cap-sources requests in flight
    pstats,       \* CAPParserService.stats
    det,          \* the detail fetches (items of the parser's index loop) in flight
    area,         \* one area of an alert document: its polygon strings, its
                  \* geoJson, and whether convertToGeoJSON has run on it
    qry,          \* the result of the last GET /cap-alerts/active
    cache,        \* capParser.responseCache at the grain of SpecCache: identifier -> timestamp
    itm,          \* the items of the parser's loop in flight in SpecCache
    rq,           \* one request of capParser.axiosInstance with its retries (SpecRetry)
    pace,         \* the detail fetches one parser.fetchAlertsFromSource call has started (SpecPace)
    tmr           \* the interval timers of the sources and the calls on the scheduler in flight (SpecTimers)

vars == <<now, sources, alerts, nextId, events, isRunning, startPc, intervals,
          cleanupTimer, stats, started, cyc, jan, ref, get, objs, adm, pstats, det, area,
          qry,
          cache,
          itm,
          rq,
          pace,
          tmr>>

Cycles == 1..MaxCycles
Items == 1..MaxItems
Admins == 1..MaxAdmin
Details == 1..MaxDetail

\* ------------------------------------------------------------ pure helpers
\* capParser.isAlertActive: some info block expires after now.
IsAlertActive(a, t) == \E i \in DOMAIN a.info : a.info[i] > t

\* The store's match of { 'info.expires': { $lt: t } } on the info array:
\* some element satisfies it.
AnyExpiresBefore(d, t) == \E i \in DOMAIN d.info : d.info[i] < t

\* Only the stored bit decides.
FindActiveByBit(store, t) == {d \in store : d.isActive}

\* CAPAlert.findActiveAlerts: find({ isActive: true, 'info.expires':
\* { $gt: now } }); some element of the info array satisfies the match.
FindActiveAlerts(store, t) ==
    {d \in store : d.isActive /\ \E i \in DOMAIN d.info : d.info[i] > t}

\* CAPSource.needsFetching
NeedsFetching(src, t) ==
    IF src.lastFetched = NoTime THEN TRUE
    ELSE t - src.lastFetched >= src.fetchInterval

\* CAPSource.recordFetchAttempt on a loaded copy (before its save)
RecordFetchAttempt(src, success, errorMessage, t) ==
    IF success
    THEN [src EXCEPT !.totalFetches = @ + 1,
                     !.successfulFetches = @ + 1,
                     !.lastSuccessfulFetch = t,
                     !.lastErrorMessage = NoError,
                     !.lastFetched = t]
    ELSE [src EXCEPT !.totalFetches = @ + 1,
                     !.failedFetches = @ + 1,
                     !.lastErrorMessage =
                         IF errorMessage = NoError THEN "Unknown error" ELSE errorMessage,
                     !.lastFetched = t]

\* document.save() of a loaded source: $set of the paths recordFetchAttempt
\* modified on the loaded copy, applied to the stored document (a path
\* assigned the value it already had is not written).
SaveFetchAttempt(stored, loaded, copy, success) ==
    LET msg == IF copy.lastErrorMessage # loaded.lastErrorMessage
               THEN copy.lastErrorMessage ELSE stored.lastErrorMessage
    IN IF success
       THEN [stored EXCEPT !.totalFetches = copy.totalFetches,
                           !.successfulFetches = copy.successfulFetches,
                           !.lastSuccessfulFetch = copy.lastSuccessfulFetch,
                           !.lastErrorMessage = msg,
                           !.lastFetched = copy.lastFetched]
       ELSE [stored EXCEPT !.totalFetches = copy.totalFetches,
                           !.failedFetches = copy.failedFetches,
                           !.lastErrorMessage = msg,
                           !.lastFetched = copy.lastFetched]

\* capParser.fetchAlertsFromSource, the items of the index feed: an
\* identifier with a live cache entry yields the cached object, else the
\* detail is fetched and the new object cached; either way the object, which
\* every holder shares, is stamped with the sourceId of the calling source.
\* The feed lists the alerts whose detail request succeeds; each request
\* counts in the parser's stats (fetchCAPAlert lines 201 and 233).
RECURSIVE ParserItems(_, _, _, _, _, _)
ParserItems(feed, heap, ps, s, t, acc) ==
    IF feed = <<>> THEN [threw |-> FALSE, alerts |-> acc, objs |-> heap, pstats |-> ps]
    ELSE LET a == Head(feed)
             k == <<a.identifier, t>>
             hit == heap[k] # NoDoc
             data == IF hit THEN heap[k].data ELSE a
             ps2 == IF hit THEN ps
                    ELSE [ps EXCEPT !.totalRequests = @ + 1, !.successfulRequests = @ + 1]
         IN ParserItems(Tail(feed), [heap EXCEPT ![k] = [data |-> data, sourceId |-> s]],
                        ps2, s, t, Append(acc, data))

\* capParser.fetchAlertsFromSource: a failed index request is caught and an
\* empty list returned; the call itself never throws.
ParserFetchAlertsFromSource(rssOk, feed, heap, ps, s, t) ==
    IF rssOk THEN ParserItems(feed, heap, ps, s, t, <<>>)
    ELSE [threw |-> FALSE, alerts |-> <<>>, objs |-> heap, pstats |-> ps]

\* The sourceId now on the alert object a holder got at time `at`.
SourceIdOf(identifier, at) == objs[<<identifier, at>>].sourceId

\* A store without the unique index: no insert is ever rejected.
DuplicateKeyNoIndex(store, identifier) == FALSE

\* The unique index of the CAPAlert schema (identifier: unique): an insert
\* of an identifier some stored alert, of any source, has is rejected.
DuplicateKey(store, identifier) == \E d \in store : d.identifier = identifier

\* CAPAlert.findOne({ identifier, sourceId })
FindOne(store, identifier, sourceId) ==
    LET hits == {d \in store : d.identifier = identifier /\ d.sourceId = sourceId}
    IN IF hits = {} THEN NoDoc ELSE CHOOSE d \in hits : TRUE

\* insertMany(docs, { ordered: false }): every document the unique index
\* admits is inserted; if one was rejected the call throws afterwards.
RECURSIVE InsertMany(_, _, _, _)
InsertMany(store, docs, id, acc) ==
    IF docs = <<>> THEN [store |-> store, nextId |-> id, ids |-> acc.ids, threw |-> acc.threw]
    ELSE LET d == Head(docs) IN
         IF DuplicateKey(store, d.identifier)
         THEN InsertMany(store, Tail(docs), id, [acc EXCEPT !.threw = TRUE])
         ELSE InsertMany(store \cup {[d EXCEPT !.id = id]}, Tail(docs), id + 1,
                         [acc EXCEPT !.ids = Append(@, id)])

\* bulkWrite of updateOne operations: each sets the cleaned alert's fields
\* (its sourceId as stamped on the object, its info, hence without
\* geoJson), fetchedAt and isActive on the match.
RECURSIVE BulkWrite(_, _, _)
BulkWrite(store, ops, sourceId) ==
    IF ops = <<>> THEN store
    ELSE LET op == Head(ops)
             hit == FindOne(store, op.identifier, sourceId)
             upd == IF hit = NoDoc THEN store
                    ELSE (store \ {hit}) \cup
                         {[hit EXCEPT !.sourceId = op.sourceId,
                                      !.sent = op.sent, !.info = op.info,
                                      !.poly = op.poly, !.geo = FALSE,
                                      !.fetchedAt = op.fetchedAt,
                                      !.isActive = op.isActive]}
         IN BulkWrite(upd, Tail(ops), sourceId)

\* updateMany({ isActive: true, 'info.expires': { $lt: t } }, { isActive: false })
\* over the documents `scope` selects
Expirable(store, scope, t) ==
    {d \in store : d \in scope /\ d.isActive /\ AnyExpiresBefore(d, t)}

MarkExpired(store, scope, t) ==
    {IF d \in Expirable(store, scope, t) THEN [d EXCEPT !.isActive = FALSE] ELSE d : d \in store}

OfSource(store, s) == {d \in store : d.sourceId = s}

\* ------------------------------------------------------------------- Init
IdleCycle ==
    [pc |-> "idle", src |-> "A", t0 |-> NoTime, at |-> NoTime, solo |-> FALSE, cur |-> NoDoc,
     rssOk |-> TRUE, fetchSuccessful |-> FALSE, fetchError |-> NoError,
     alerts |-> <<>>, existing |-> {}, i |-> 0, batch |-> <<>>,
     ops |-> <<>>, news |-> <<>>, created |-> <<>>,
     newCount |-> 0, updatedCount |-> 0, skippedCount |-> 0, errorCount |-> 0]

IdleRefresh ==
    [pc |-> "idle", n |-> 0, src |-> "A", cur |-> NoDoc, alerts |-> <<>>, at |-> NoTime,
     i |-> 0, found |-> NoDoc, pending |-> NoDoc]

IdleFetch ==
    [pc |-> "idle", n |-> 0, src |-> "A", cur |-> NoDoc, alerts |-> <<>>, at |-> NoTime,
     i |-> 0, ops |-> <<>>, news |-> <<>>, created |-> <<>>]

\* No request is under way.  `attempts` counts the times the request was
\* sent, `waits` lists the delays (ms) before its retries, `log` the answers.
IdleRequest == [pc |-> "idle", n |-> 0, attempts |-> 0, retryCount |-> 0,
                waits |-> <<>>, log |-> <<>>]

\* No timer is set and no call is in flight.  `map` is the intervals map
\* (source id -> the handle setInterval returned, 0: no entry), `live` the
\* timers set and not cleared, `next` the next handle; `loading` counts the
\* start() calls awaiting getActiveSources, `upd` the updateSource() calls
\* and `chk` the cycles awaiting findById, per source id.
IdleTimers ==
    [map |-> [s \in SourceIds |-> 0], live |-> {}, next |-> 1,
     starts |-> 0, loading |-> 0,
     updates |-> 0, upd |-> [s \in SourceIds |-> 0],
     removes |-> 0, callbacks |-> 0, chk |-> [s \in SourceIds |-> 0]]

\* parser.fetchAlertsFromSource has not been called.  `clock` is in ms, `n`
\* the number of items to process, `starts` the instants the detail
\* requests were started at, in the order of the items.
IdlePace == [pc |-> "idle", clock |-> 0, n |-> 0, starts |-> <<>>]

\* An item of the parser's loop that is not being processed.
IdleItem == [pc |-> "idle", n |-> 0, identifier |-> "x", hit |-> FALSE, age |-> 0]

\* No GET /cap-alerts/active has been answered.
NoQuery == [at |-> NoTime, result |-> {}]

\* A /cap-sources request slot: the request it is serving, the source it
\* names, the isDefault of its body and whether that differs from the
\* document it loaded.
IdleAdmin ==
    [pc |-> "idle", n |-> 0, src |-> "A", isDefault |-> FALSE, modified |-> FALSE]

\* A detail fetch slot: the identifier and the calling source.
IdleDetail ==
    [pc |-> "idle", n |-> 0, identifier |-> "x", src |-> "A"]

NewSource ==
    [isDefault |-> FALSE, isActive |-> TRUE, fetchInterval |-> FetchInterval, lastFetched |-> NoTime,
     lastSuccessfulFetch |-> NoTime, totalFetches |-> 0, successfulFetches |-> 0,
     failedFetches |-> 0, lastErrorMessage |-> NoError]

\* The state after construction, over the store of sources `srcs`.
InitOver(srcs) ==
    /\ now = 1
    /\ sources = srcs
    /\ alerts = {}
    /\ nextId = 1
    /\ events = <<>>
    /\ isRunning = FALSE
    /\ startPc = "none"
    /\ intervals = [s \in SourceIds |-> NoTime]
    /\ cleanupTimer = FALSE
    /\ stats = [totalFetches |-> 0, successfulFetches |-> 0, failedFetches |-> 0,
                newAlerts |-> 0, updatedAlerts |-> 0, expiredAlerts |-> 0,
                cleanedUpAlerts |-> 0]
    /\ started = 0
    /\ cyc = [c \in Cycles |-> IdleCycle]
    /\ jan = [pc |-> "idle", cutoff |-> 0]
    /\ ref = IdleRefresh
    /\ get = IdleFetch
    /\ objs = [k \in Identifiers \X (1..MaxTime) |-> NoDoc]
    /\ adm = [k \in Admins |-> IdleAdmin]
    /\ pstats = [totalRequests |-> 0, successfulRequests |-> 0, failedRequests |-> 0,
                 cacheHits |-> 0, htmlFallbacks |-> 0]
    /\ det = [k \in Details |-> IdleDetail]
    /\ tmr = IdleTimers
    /\ pace = IdlePace
    /\ rq = IdleRequest
    /\ itm = [k \in Items |-> IdleItem]
    /\ cache = [id \in Identifiers |-> NoTime]
    /\ qry = NoQuery

\* The state after construction, with the sources S in the store.
InitWith(S) == InitOver([s \in S |-> NewSource])

\* An area without polygons, not converted.
NoArea == [polygon |-> <<>>, geoJson |-> NoDoc, converted |-> FALSE]

Init == InitWith({"A"}) /\ area = NoArea

\* The service is started at time 2 over the store an earlier run left at
\* time 1: source A was fetched once and its alert X1 stored; source B has
\* been added and never fetched.  Nothing has been emitted or cached yet.
InitTwo ==
    /\ now = 2
    /\ sources = [s \in SourceIds |->
                    IF s = "A" THEN RecordFetchAttempt(NewSource, TRUE, NoError, 1)
                    ELSE NewSource]
    /\ alerts = {[id |-> 1, identifier |-> X1.identifier, sourceId |-> "A",
                  sent |-> X1.sent, info |-> X1.info, poly |-> X1.poly, geo |-> X1.poly,
                  fetchedAt |-> 1, isActive |-> IsAlertActive(X1, 1)]}
    /\ nextId = 2
    /\ events = <<>>
    /\ isRunning = FALSE
    /\ startPc = "none"
    /\ intervals = [s \in SourceIds |-> NoTime]
    /\ cleanupTimer = FALSE
    /\ stats = [totalFetches |-> 0, successfulFetches |-> 0, failedFetches |-> 0,
                newAlerts |-> 0, updatedAlerts |-> 0, expiredAlerts |-> 0,
                cleanedUpAlerts |-> 0]
    /\ started = 0
    /\ cyc = [c \in Cycles |-> IdleCycle]
    /\ jan = [pc |-> "idle", cutoff |-> 0]
    /\ ref = IdleRefresh
    /\ get = IdleFetch
    /\ objs = [k \in Identifiers \X (1..MaxTime) |-> NoDoc]
    /\ adm = [k \in Admins |-> IdleAdmin]
    /\ pstats = [totalRequests |-> 0, successfulRequests |-> 0, failedRequests |-> 0,
                 cacheHits |-> 0, htmlFallbacks |-> 0]
    /\ det = [k \in Details |-> IdleDetail]
    /\ tmr = IdleTimers
    /\ pace = IdlePace
    /\ rq = IdleRequest
    /\ itm = [k \in Items |-> IdleItem]
    /\ cache = [id \in Identifiers |-> NoTime]
    /\ qry = NoQuery
    /\ area = NoArea

\* ---------------------------------------------------- the scheduler: start
\* start(), up to its await of CAPSource.getActiveSources()
Start ==
    /\ ~isRunning
    /\ startPc = "none"
    /\ isRunning' = TRUE
    /\ startPc' = "loading"
    /\ UNCHANGED <<now, sources, alerts, nextId, events, intervals, cleanupTimer,
                   stats, started, cyc, jan, ref, get, objs, adm, pstats, det, area, qry, cache, itm, rq, pace, tmr>>

\* stop() without its reset of the janitor's timer
StopKeepsCleanupTimer ==
    /\ intervals' = [s \in DOMAIN intervals |-> NoTime]
    /\ isRunning' = FALSE
    /\ UNCHANGED <<now, sources, alerts, nextId, events, startPc, cleanupTimer,
                   stats, started, cyc, jan, ref, get, objs, adm, pstats, det, area, qry, cache, itm, rq, pace, tmr>>

\* stop(): clear every source's interval and the janitor's timer, forget
\* the intervals, isRunning = false.  It can be called at any time; cycles
\* and sweeps that are in flight are not touched.
Stop ==
    /\ intervals' = [s \in DOMAIN intervals |-> NoTime]
    /\ cleanupTimer' = FALSE
    /\ isRunning' = FALSE
    /\ UNCHANGED <<now, sources, alerts, nextId, events, startPc,
                   stats, started, cyc, jan, ref, get, objs, adm, pstats, det, area, qry, cache, itm, rq, pace, tmr>>

\* fetchAlertsFromSource(source), its synchronous head: count the fetch and
\* issue CAPSource.findById.  `solo` notes that no earlier cycle of the
\* source was still running when this one began.
BeginCycle(c, s, n, t) ==
    [c EXCEPT ![n] = [IdleCycle EXCEPT !.pc = "check", !.src = s, !.t0 = t,
                        !.solo = \A k \in Cycles : c[k].src = s => c[k].pc \in {"idle", "done"}]]

\* The active sources, in the order getActiveSources returns them.
RECURSIVE SetToSeq(_)
SetToSeq(S) == IF S = {} THEN <<>>
               ELSE LET x == CHOOSE y \in S : TRUE IN <<x>> \o SetToSeq(S \ {x})

ActiveSources == SetToSeq({s \in DOMAIN sources : sources[s].isActive})

\* scheduleSourceFetching for each source of a list: the initial fetch is
\* started (not awaited) and an interval timer is set.
RECURSIVE ScheduleAll(_, _, _, _, _)
ScheduleAll(list, c, iv, n, t) ==
    IF list = <<>> \/ n >= MaxCycles THEN [cyc |-> c, intervals |-> iv, started |-> n]
    ELSE LET s == Head(list) IN
         ScheduleAll(Tail(list), BeginCycle(c, s, n + 1, t),
                     [iv EXCEPT ![s] = t + sources[s].fetchInterval], n + 1, t)

\* start() after getActiveSources: schedule every source, then
\* startCleanupTimer (a first cleanupOldAlerts, then its 24 h timer).
StartLoaded ==
    /\ startPc = "loading"
    /\ LET r == ScheduleAll(ActiveSources, cyc, intervals, started, now) IN
        /\ cyc' = r.cyc
        /\ intervals' = r.intervals
        /\ started' = r.started
        /\ stats' = [stats EXCEPT !.totalFetches = @ + (r.started - started)]
    /\ jan' = [pc |-> "delete", cutoff |-> now - OLD_ALERT_THRESHOLD]
    /\ cleanupTimer' = TRUE
    /\ startPc' = "done"
    /\ UNCHANGED <<now, sources, alerts, nextId, events, isRunning, ref, get, objs, adm, pstats, det, area, qry, cache, itm, rq, pace, tmr>>

\* The setInterval callback of a source: another fetchAlertsFromSource.
TimerFire(s) ==
    /\ intervals[s] # NoTime
    /\ intervals[s] <= now
    /\ started < MaxCycles
    /\ intervals' = [intervals EXCEPT ![s] = @ + sources[s].fetchInterval]
    /\ started' = started + 1
    /\ cyc' = BeginCycle(cyc, s, started + 1, now)
    /\ stats' = [stats EXCEPT !.totalFetches = @ + 1]
    /\ UNCHANGED <<now, sources, alerts, nextId, events, isRunning, startPc,
                   cleanupTimer, jan, ref, get, objs, adm, pstats, det, area, qry, cache, itm, rq, pace, tmr>>

\* Time passes; a timer that is due fires before the clock moves on (until
\* the bound on cycles is reached).
AdvanceTime ==
    /\ now < MaxTime
    /\ \/ started >= MaxCycles
       \/ \A s \in SourceIds : intervals[s] = NoTime \/ intervals[s] > now
    /\ now' = now + 1
    /\ UNCHANGED <<sources, alerts, nextId, events, isRunning, startPc, intervals,
                   cleanupTimer, stats, started, cyc, jan, ref, get, objs, adm, pstats, det, area, qry, cache, itm, rq, pace, tmr>>

\* ------------------------------------------------ the scheduler: one cycle
\* A finished cycle keeps what it received, when it began and its errors.
Finished(c) == [IdleCycle EXCEPT !.pc = "done", !.src = c.src, !.t0 = c.t0,
                                 !.solo = c.solo, !.rssOk = c.rssOk, !.alerts = c.alerts,
                                 !.errorCount = c.errorCount]

\* removeSourceInterval
RemoveSourceInterval(iv, s) == [iv EXCEPT ![s] = NoTime]

\* fetchAlertsFromSource giving up its timer on a store error
FindSourceDropsTimer(n) ==
    /\ cyc[n].pc = "check"
    /\ \E dbOk \in BOOLEAN :
        LET s == cyc[n].src IN
        IF ~dbOk
        THEN /\ stats' = [stats EXCEPT !.failedFetches = @ + 1]
             /\ cyc' = [cyc EXCEPT ![n] = Finished(@)]
             /\ intervals' = RemoveSourceInterval(intervals, s)
        ELSE IF s \notin DOMAIN sources \/ ~sources[s].isActive
        THEN /\ intervals' = RemoveSourceInterval(intervals, s)
             /\ cyc' = [cyc EXCEPT ![n] = Finished(@)]
             /\ UNCHANGED stats
        ELSE IF ~NeedsFetching(sources[s], now)
        THEN /\ cyc' = [cyc EXCEPT ![n] = Finished(@)]
             /\ UNCHANGED <<intervals, stats>>
        ELSE /\ cyc' = [cyc EXCEPT ![n].pc = "fetch", ![n].cur = sources[s]]
             /\ UNCHANGED <<intervals, stats>>
    /\ UNCHANGED <<now, sources, alerts, nextId, events, isRunning, startPc,
                   cleanupTimer, started, jan, ref, get, objs, adm, pstats, det, area, qry, cache, itm, rq, pace, tmr>>

\* fetchAlertsFromSource lines 355-375: re-read the source; stop if it is
\* gone or inactive, or not due; a store error counts a failed fetch.
FindSource(n) ==
    /\ cyc[n].pc = "check"
    /\ \E dbOk \in BOOLEAN :
        LET s == cyc[n].src IN
        IF ~dbOk
        THEN /\ stats' = [stats EXCEPT !.failedFetches = @ + 1]
             /\ cyc' = [cyc EXCEPT ![n] = Finished(@)]
             /\ UNCHANGED intervals
        ELSE IF s \notin DOMAIN sources \/ ~sources[s].isActive
        THEN /\ intervals' = RemoveSourceInterval(intervals, s)
             /\ cyc' = [cyc EXCEPT ![n] = Finished(@)]
             /\ UNCHANGED stats
        ELSE IF ~NeedsFetching(sources[s], now)
        THEN /\ cyc' = [cyc EXCEPT ![n] = Finished(@)]
             /\ UNCHANGED <<intervals, stats>>
        ELSE /\ cyc' = [cyc EXCEPT ![n].pc = "fetch", ![n].cur = sources[s]]
             /\ UNCHANGED <<intervals, stats>>
    /\ UNCHANGED <<now, sources, alerts, nextId, events, isRunning, startPc,
                   cleanupTimer, started, jan, ref, get, objs, adm, pstats, det, area, qry, cache, itm, rq, pace, tmr>>

\* fetchAlertsFromSource counting a successful fetch twice
ParserFetchCountsTwice(n) ==
    /\ cyc[n].pc = "fetch"
    /\ \E rssOk \in BOOLEAN, feed \in Feeds :
        LET r == ParserFetchAlertsFromSource(rssOk, feed, objs, pstats, cyc[n].src, now) IN
        /\ objs' = r.objs
        /\ pstats' = r.pstats
        /\ IF r.threw
           THEN /\ cyc' = [cyc EXCEPT ![n].pc = "existing", ![n].rssOk = rssOk,
                                      ![n].fetchSuccessful = FALSE,
                                      ![n].fetchError = "Failed to fetch RSS feed"]
                /\ stats' = [stats EXCEPT !.failedFetches = @ + 1]
           ELSE /\ cyc' = [cyc EXCEPT ![n].pc = "existing", ![n].rssOk = rssOk,
                                      ![n].alerts = r.alerts, ![n].at = now,
                                      ![n].fetchSuccessful = TRUE]
                /\ stats' = [stats EXCEPT !.successfulFetches = @ + 2]
    /\ UNCHANGED <<now, sources, alerts, nextId, events, isRunning, startPc,
                   intervals, cleanupTimer, started, jan, ref, get, adm, det, area, qry, cache, itm, rq, pace, tmr>>

\* fetchAlertsFromSource lines 377-393: the parser call and its outcome.
ParserFetch(n) ==
    /\ cyc[n].pc = "fetch"
    /\ \E rssOk \in BOOLEAN, feed \in Feeds :
        LET r == ParserFetchAlertsFromSource(rssOk, feed, objs, pstats, cyc[n].src, now) IN
        /\ objs' = r.objs
        /\ pstats' = r.pstats
        /\ IF r.threw
           THEN /\ cyc' = [cyc EXCEPT ![n].pc = "existing", ![n].rssOk = rssOk,
                                      ![n].fetchSuccessful = FALSE,
                                      ![n].fetchError = "Failed to fetch RSS feed"]
                /\ stats' = [stats EXCEPT !.failedFetches = @ + 1]
           ELSE /\ cyc' = [cyc EXCEPT ![n].pc = "existing", ![n].rssOk = rssOk,
                                      ![n].alerts = r.alerts, ![n].at = now,
                                      ![n].fetchSuccessful = TRUE]
                /\ stats' = [stats EXCEPT !.successfulFetches = @ + 1]
    /\ UNCHANGED <<now, sources, alerts, nextId, events, isRunning, startPc,
                   intervals, cleanupTimer, started, jan, ref, get, adm, det, area, qry, cache, itm, rq, pace, tmr>>

\* processBatch lines 259-299: sort the batch into update operations (the
\* identifier was among the existing ones) and documents to insert, each
\* with isActive computed now.
RECURSIVE PrepareBatch(_, _, _, _, _, _)
PrepareBatch(batch, existing, s, at, t, acc) ==
    IF batch = <<>> THEN acc
    ELSE LET a == Head(batch)
             alertIsActive == IsAlertActive(a, t)
         IN IF a.identifier \in existing
            THEN PrepareBatch(Tail(batch), existing, s, at, t,
                    [acc EXCEPT !.ops = Append(@,
                        [identifier |-> a.identifier,
                         sourceId |-> SourceIdOf(a.identifier, at),
                         sent |-> a.sent, info |-> a.info,
                         poly |-> a.poly, fetchedAt |-> t, isActive |-> alertIsActive])])
            ELSE PrepareBatch(Tail(batch), existing, s, at, t,
                    [acc EXCEPT !.news = Append(@,
                        [id |-> 0, identifier |-> a.identifier, sourceId |-> s,
                         sent |-> a.sent, info |-> a.info, poly |-> a.poly, geo |-> FALSE,
                         fetchedAt |-> t, isActive |-> alertIsActive])])

\* processAlertsBatch after its loop (lines 236-244), into processBatch up
\* to its first await.
AfterLoop(c, t) ==
    IF c.batch = <<>> THEN [c EXCEPT !.pc = "record"]
    ELSE LET p == PrepareBatch(c.batch, c.existing, c.src, c.at, t, [ops |-> <<>>, news |-> <<>>])
         IN [c EXCEPT !.ops = p.ops, !.news = p.news,
                      !.updatedCount = Len(p.ops), !.newCount = Len(p.news),
                      !.pc = IF p.ops # <<>> THEN "bulk" ELSE "insert"]

\* The loop of processAlertsBatch (lines 200-234) from alert i up to its
\* next await: an alert whose identifier is not among the existing ones is
\* batched at once, one that is waits for CAPAlert.findOne.
RECURSIVE RunLoop(_, _, _)
RunLoop(c, i, t) ==
    IF i > Len(c.alerts) THEN AfterLoop(c, t)
    ELSE IF c.alerts[i].identifier \in c.existing
    THEN [c EXCEPT !.pc = "compare", !.i = i]
    ELSE RunLoop([c EXCEPT !.batch = Append(@, c.alerts[i])], i + 1, t)

\* fetchAlertsFromSource lines 402-404, once processAlertsBatch has returned
StatsAfter(st, c) ==
    IF c.pc = "record"
    THEN [st EXCEPT !.newAlerts = @ + c.newCount, !.updatedAlerts = @ + c.updatedCount]
    ELSE st

\* getExistingAlertIdentifiers returns; the loop starts.
GetExistingAlertIdentifiers(n) ==
    /\ cyc[n].pc = "existing"
    /\ LET ex == {d.identifier : d \in OfSource(alerts, cyc[n].src)}
           c2 == RunLoop([cyc[n] EXCEPT !.existing = ex], 1, now)
       IN /\ cyc' = [cyc EXCEPT ![n] = c2]
          /\ stats' = StatsAfter(stats, c2)
    /\ UNCHANGED <<now, sources, alerts, nextId, events, isRunning, startPc,
                   intervals, cleanupTimer, started, jan, ref, get, objs, adm, pstats, det, area, qry, cache, itm, rq, pace, tmr>>

\* processAlertsBatch lines 203-220: findOne returns; skip the alert when
\* sent and the active bit agree, else batch it.
CompareExisting(n) ==
    /\ cyc[n].pc = "compare"
    /\ LET c == cyc[n]
           a == c.alerts[c.i]
           existingAlert == FindOne(alerts, a.identifier, c.src)
           skip == /\ existingAlert # NoDoc
                   /\ existingAlert.sent = a.sent
                   /\ existingAlert.isActive = IsAlertActive(a, now)
           c1 == IF skip THEN [c EXCEPT !.skippedCount = @ + 1]
                 ELSE [c EXCEPT !.batch = Append(@, a)]
           c2 == RunLoop(c1, c.i + 1, now)
       IN /\ cyc' = [cyc EXCEPT ![n] = c2]
          /\ stats' = StatsAfter(stats, c2)
    /\ UNCHANGED <<now, sources, alerts, nextId, events, isRunning, startPc,
                   intervals, cleanupTimer, started, jan, ref, get, objs, adm, pstats, det, area, qry, cache, itm, rq, pace, tmr>>

\* processBatch lines 303-305: CAPAlert.bulkWrite(bulkOps)
ProcessBatchUpdate(n) ==
    /\ cyc[n].pc = "bulk"
    /\ alerts' = BulkWrite(alerts, cyc[n].ops, cyc[n].src)
    /\ LET c2 == [cyc[n] EXCEPT !.pc = IF cyc[n].news # <<>> THEN "insert" ELSE "record"]
       IN /\ cyc' = [cyc EXCEPT ![n] = c2]
          /\ stats' = StatsAfter(stats, c2)
    /\ UNCHANGED <<now, sources, nextId, events, isRunning, startPc,
                   intervals, cleanupTimer, started, jan, ref, get, objs, adm, pstats, det, area, qry, cache, itm, rq, pace, tmr>>

\* processBatch lines 307-308 and 334-343: insertMany; if it throws, the
\* whole batch is counted as errors and nothing is converted or emitted.
ProcessBatchInsert(n) ==
    /\ cyc[n].pc = "insert"
    /\ LET r == InsertMany(alerts, cyc[n].news, nextId, [ids |-> <<>>, threw |-> FALSE])
           c2 == IF r.threw
                 THEN [cyc[n] EXCEPT !.pc = "record", !.errorCount = @ + Len(cyc[n].batch)]
                 ELSE [cyc[n] EXCEPT !.pc = "geo", !.created = r.ids, !.i = 1]
       IN /\ alerts' = r.store
          /\ nextId' = r.nextId
          /\ cyc' = [cyc EXCEPT ![n] = c2]
          /\ stats' = StatsAfter(stats, c2)
    /\ UNCHANGED <<now, sources, events, isRunning, startPc,
                   intervals, cleanupTimer, started, jan, ref, get, objs, adm, pstats, det, area, qry, cache, itm, rq, pace, tmr>>

\* alert.save() after convertToGeoJSON: the geometry computed from the
\* document's polygons is written to the stored document.
SaveGeoJSON(store, id, poly) ==
    {IF d.id = id /\ poly THEN [d EXCEPT !.geo = TRUE] ELSE d : d \in store}

\* io.emit
Emit(ev, type, id, identifier) ==
    Append(ev, [type |-> type, id |-> id, identifier |-> identifier])

\* processBatch lines 311-332, one created alert: convertToGeoJSON, save,
\* emit cap-alert-new.
ConvertAndEmit(n) ==
    /\ cyc[n].pc = "geo"
    /\ LET c == cyc[n]
           id == c.created[c.i]
           doc == c.news[c.i]
           c2 == IF c.i = Len(c.created) THEN [c EXCEPT !.pc = "record"]
                 ELSE [c EXCEPT !.i = @ + 1]
       IN /\ alerts' = SaveGeoJSON(alerts, id, doc.poly)
          /\ events' = Emit(events, "new", id, doc.identifier)
          /\ cyc' = [cyc EXCEPT ![n] = c2]
          /\ stats' = StatsAfter(stats, c2)
    /\ UNCHANGED <<now, sources, nextId, isRunning, startPc,
                   intervals, cleanupTimer, started, jan, ref, get, objs, adm, pstats, det, area, qry, cache, itm, rq, pace, tmr>>

\* fetchAlertsFromSource lines 406-410: currentSource.recordFetchAttempt
RecordAttempt(n) ==
    /\ cyc[n].pc = "record"
    /\ LET c == cyc[n]
           copy == RecordFetchAttempt(c.cur, c.fetchSuccessful, c.fetchError, now)
       IN /\ sources' = [sources EXCEPT ![c.src] = SaveFetchAttempt(@, c.cur, copy, c.fetchSuccessful)]
          /\ cyc' = [cyc EXCEPT ![n].pc = "repair", ![n].cur = copy]
    /\ UNCHANGED <<now, alerts, nextId, events, isRunning, startPc,
                   intervals, cleanupTimer, stats, started, jan, ref, get, objs, adm, pstats, det, area, qry, cache, itm, rq, pace, tmr>>

\* fetchAlertsFromSource lines 412-426: mark this source's expired alerts
\* inactive; the cycle ends.
ExpireRepair(n) ==
    /\ cyc[n].pc = "repair"
    /\ LET scope == OfSource(alerts, cyc[n].src) IN
        /\ alerts' = MarkExpired(alerts, scope, now)
        /\ stats' = [stats EXCEPT !.expiredAlerts = @ + Cardinality(Expirable(alerts, scope, now))]
    /\ cyc' = [cyc EXCEPT ![n] = Finished(@)]
    /\ UNCHANGED <<now, sources, nextId, events, isRunning, startPc,
                   intervals, cleanupTimer, started, jan, ref, get, objs, adm, pstats, det, area, qry, cache, itm, rq, pace, tmr>>

\* ------------------------------------------------------------ the janitor
\* cleanupOldAlerts lines 116-125: delete inactive alerts with an expires
\* and fetchedAt before the cutoff.
Deletable(store, cutoff) ==
    {d \in store : ~d.isActive /\ AnyExpiresBefore(d, cutoff) /\ d.fetchedAt < cutoff}

CleanupDelete ==
    /\ jan.pc = "delete"
    /\ alerts' = alerts \ Deletable(alerts, jan.cutoff)
    /\ stats' = [stats EXCEPT !.cleanedUpAlerts = @ + Cardinality(Deletable(alerts, jan.cutoff))]
    /\ jan' = [jan EXCEPT !.pc = "expire"]
    /\ UNCHANGED <<now, sources, nextId, events, isRunning, startPc,
                   intervals, cleanupTimer, started, cyc, ref, get, objs, adm, pstats, det, area, qry, cache, itm, rq, pace, tmr>>

\* cleanupOldAlerts lines 127-140: mark every expired alert inactive.
CleanupExpire ==
    /\ jan.pc = "expire"
    /\ alerts' = MarkExpired(alerts, alerts, now)
    /\ stats' = [stats EXCEPT !.expiredAlerts = @ + Cardinality(Expirable(alerts, alerts, now))]
    /\ jan' = [jan EXCEPT !.pc = "idle"]
    /\ UNCHANGED <<now, sources, nextId, events, isRunning, startPc,
                   intervals, cleanupTimer, started, cyc, ref, get, objs, adm, pstats, det, area, qry, cache, itm, rq, pace, tmr>>

\* The service starts after more than 30 days: the clock of the janitor's
\* first run, and the instants (around its cutoff, and one still ahead) the
\* stored alerts were fetched at and expire at.
JanitorNow == {OLD_ALERT_THRESHOLD + 2, OLD_ALERT_THRESHOLD + 3}
JanitorFetched == {1, 2, 3}
JanitorExpires == {1, 2, 3, OLD_ALERT_THRESHOLD + 4}

\* The documents an earlier run can have left for source A: isActive was
\* stored as isAlertActive at fetch time and can only have been cleared
\* since by an updateMany matching an expires in the past.
JanitorDocs(t) ==
    {d \in [id : {1}, identifier : {"x"}, sourceId : {"A"}, sent : {1},
            info : [1..1 -> JanitorExpires], poly : {FALSE}, geo : {FALSE},
            fetchedAt : JanitorFetched, isActive : BOOLEAN]
        \cup [id : {2}, identifier : {"m"}, sourceId : {"A"}, sent : {1},
              info : [1..2 -> JanitorExpires], poly : {FALSE}, geo : {FALSE},
              fetchedAt : JanitorFetched, isActive : BOOLEAN] :
        /\ d.isActive => IsAlertActive(d, d.fetchedAt)
        /\ ~d.isActive => (~IsAlertActive(d, d.fetchedAt) \/ AnyExpiresBefore(d, t))}

\* The service is started over such a store; source A has been deactivated,
\* so that start() schedules nothing and runs the first cleanupOldAlerts.
InitJanitor ==
    /\ now \in JanitorNow
    /\ sources = [s \in {"A"} |-> [NewSource EXCEPT !.isActive = FALSE]]
    /\ \E x, m \in JanitorDocs(now) \cup {NoDoc} :
          /\ x # NoDoc => x.id = 1
          /\ m # NoDoc => m.id = 2
          /\ alerts = {x, m} \ {NoDoc}
    /\ nextId = 3
    /\ events = <<>>
    /\ isRunning = FALSE
    /\ startPc = "none"
    /\ intervals = [s \in SourceIds |-> NoTime]
    /\ cleanupTimer = FALSE
    /\ stats = [totalFetches |-> 0, successfulFetches |-> 0, failedFetches |-> 0,
                newAlerts |-> 0, updatedAlerts |-> 0, expiredAlerts |-> 0,
                cleanedUpAlerts |-> 0]
    /\ started = 0
    /\ cyc = [c \in Cycles |-> IdleCycle]
    /\ jan = [pc |-> "idle", cutoff |-> 0]
    /\ ref = IdleRefresh
    /\ get = IdleFetch
    /\ objs = [k \in Identifiers \X (1..MaxTime) |-> NoDoc]
    /\ adm = [k \in Admins |-> IdleAdmin]
    /\ pstats = [totalRequests |-> 0, successfulRequests |-> 0, failedRequests |-> 0,
                 cacheHits |-> 0, htmlFallbacks |-> 0]
    /\ det = [k \in Details |-> IdleDetail]
    /\ tmr = IdleTimers
    /\ pace = IdlePace
    /\ rq = IdleRequest
    /\ itm = [k \in Items |-> IdleItem]
    /\ cache = [id \in Identifiers |-> NoTime]
    /\ qry = NoQuery
    /\ area = NoArea

NextJanitor ==
    \/ Start
    \/ StartLoaded
    \/ CleanupDelete
    \/ CleanupExpire

SpecJanitor == InitJanitor /\ [][NextJanitor]_vars

\* ------------------------------------------------ POST /cap-alerts/refresh
schedVars == <<isRunning, startPc, intervals, cleanupTimer, stats, started, cyc, jan>>

\* The request arrives with a sourceId; CAPSource.findById is issued.
RefreshBegin(s) ==
    /\ ref.pc = "idle"
    /\ ref.n < MaxRefresh
    /\ ref' = [IdleRefresh EXCEPT !.pc = "source", !.src = s, !.n = ref.n + 1]
    /\ UNCHANGED <<now, sources, alerts, nextId, events, schedVars, get, objs, adm, pstats, det, area, qry, cache, itm, rq, pace, tmr>>

\* capAlerts.ts lines 334-349: the source is loaded; if it is active the
\* parser is called.
RefreshFindSource ==
    /\ ref.pc = "source"
    /\ IF ref.src \in DOMAIN sources /\ sources[ref.src].isActive
       THEN ref' = [ref EXCEPT !.pc = "fetch", !.cur = sources[ref.src]]
       ELSE ref' = [ref EXCEPT !.pc = "idle"]
    /\ UNCHANGED <<now, sources, alerts, nextId, events, schedVars, get, objs, adm, pstats, det, area, qry, cache, itm, rq, pace, tmr>>

\* The loop over the alerts (lines 352-392) reaches alert i, or ends and the
\* source's lastFetched is saved (lines 394-396).
RefreshAt(r, i) ==
    IF i > Len(r.alerts) THEN [r EXCEPT !.pc = "touch", !.found = NoDoc, !.pending = NoDoc]
    ELSE [r EXCEPT !.pc = "find", !.i = i, !.found = NoDoc, !.pending = NoDoc]

RefreshFetch ==
    /\ ref.pc = "fetch"
    /\ \E rssOk \in BOOLEAN, feed \in Feeds :
        LET r == ParserFetchAlertsFromSource(rssOk, feed, objs, pstats, ref.src, now) IN
        /\ objs' = r.objs
        /\ pstats' = r.pstats
        /\ ref' = RefreshAt([ref EXCEPT !.alerts = r.alerts, !.at = now], 1)
    /\ UNCHANGED <<now, sources, alerts, nextId, events, schedVars, get, adm, det, area, qry, cache, itm, rq, pace, tmr>>

\* lines 354-383: findOne returns; the new or the found document is given
\* the cleaned alert's fields, fetchedAt, isActive and its geometry, and
\* save() is issued.
RefreshFindOne ==
    /\ ref.pc = "find"
    /\ LET a == ref.alerts[ref.i] IN
        ref' = [ref EXCEPT !.pc = "save",
                           !.found = FindOne(alerts, a.identifier, ref.src),
                           !.pending = [sourceId |-> SourceIdOf(a.identifier, ref.at),
                                        sent |-> a.sent, info |-> a.info, poly |-> a.poly,
                                        geo |-> a.poly, fetchedAt |-> now,
                                        isActive |-> IsAlertActive(a, now)]]
    /\ UNCHANGED <<now, sources, alerts, nextId, events, schedVars, get, objs, adm, pstats, det, area, qry, cache, itm, rq, pace, tmr>>

\* save() of a found document: the paths that were modified are set on the
\* stored document with its _id (sourceId, sent and isActive only if they
\* changed).
SaveExisting(store, found, p) ==
    {IF d.id = found.id
     THEN [d EXCEPT !.sourceId = IF found.sourceId # p.sourceId THEN p.sourceId ELSE @,
                    !.sent = IF found.sent # p.sent THEN p.sent ELSE @,
                    !.isActive = IF found.isActive # p.isActive THEN p.isActive ELSE @,
                    !.info = p.info, !.poly = p.poly, !.geo = p.geo,
                    !.fetchedAt = p.fetchedAt]
     ELSE d : d \in store}

\* lines 370-374 and 383-387: save() returns and the event is emitted; a
\* save the store rejects is caught and logged (lines 389-391).
RefreshSave ==
    /\ ref.pc = "save"
    /\ LET a == ref.alerts[ref.i]
           p == ref.pending
       IN IF ref.found = NoDoc
          THEN IF DuplicateKey(alerts, a.identifier)
               THEN UNCHANGED <<alerts, nextId, events>>
               ELSE /\ alerts' = alerts \cup
                        {[id |-> nextId, identifier |-> a.identifier, sourceId |-> ref.src,
                          sent |-> p.sent, info |-> p.info, poly |-> p.poly, geo |-> p.geo,
                          fetchedAt |-> p.fetchedAt, isActive |-> p.isActive]}
                    /\ nextId' = nextId + 1
                    /\ events' = Emit(events, "new", nextId, a.identifier)
          ELSE IF \E d \in alerts : d.id = ref.found.id
               THEN /\ alerts' = SaveExisting(alerts, ref.found, p)
                    /\ events' = Emit(events, "update", ref.found.id, a.identifier)
                    /\ UNCHANGED nextId
               ELSE UNCHANGED <<alerts, nextId, events>>
    /\ ref' = RefreshAt(ref, ref.i + 1)
    /\ UNCHANGED <<now, sources, schedVars, get, objs, adm, pstats, det, area, qry, cache, itm, rq, pace, tmr>>

\* lines 394-396: source.lastFetched = new Date(); source.save()
RefreshTouchSource ==
    /\ ref.pc = "touch"
    /\ sources' = [sources EXCEPT ![ref.src].lastFetched = now]
    /\ ref' = [IdleRefresh EXCEPT !.n = ref.n]
    /\ UNCHANGED <<now, alerts, nextId, events, schedVars, get, objs, adm, pstats, det, area, qry, cache, itm, rq, pace, tmr>>

\* --------------------------------------------------- GET /cap-alerts/fetch
FetchBegin(s) ==
    /\ get.pc = "idle"
    /\ get.n < MaxFetch
    /\ get' = [IdleFetch EXCEPT !.pc = "source", !.src = s, !.n = get.n + 1]
    /\ UNCHANGED <<now, sources, alerts, nextId, events, schedVars, ref, objs, adm, pstats, det, area, qry, cache, itm, rq, pace, tmr>>

\* capAlerts.ts lines 21-37
FetchFindSource ==
    /\ get.pc = "source"
    /\ IF get.src \in DOMAIN sources /\ sources[get.src].isActive
       THEN get' = [get EXCEPT !.pc = "fetch", !.cur = sources[get.src]]
       ELSE get' = [get EXCEPT !.pc = "idle"]
    /\ UNCHANGED <<now, sources, alerts, nextId, events, schedVars, ref, objs, adm, pstats, det, area, qry, cache, itm, rq, pace, tmr>>

\* lines 45-50: with no alert the source is passed over (no attempt is
\* recorded) and the handler goes on to the expiry sweep.
FetchParser ==
    /\ get.pc = "fetch"
    /\ \E rssOk \in BOOLEAN, feed \in Feeds :
        LET r == ParserFetchAlertsFromSource(rssOk, feed, objs, pstats, get.src, now) IN
        /\ objs' = r.objs
        /\ pstats' = r.pstats
        /\ get' = [get EXCEPT !.alerts = r.alerts, !.at = now,
                              !.pc = IF r.alerts = <<>> THEN "expire" ELSE "existing"]
    /\ UNCHANGED <<now, sources, alerts, nextId, events, schedVars, ref, adm, det, area, qry, cache, itm, rq, pace, tmr>>

\* lines 64-102: against the identifier -> (sent, isActive) map of the
\* source's stored alerts, stage inserts and the updates that are needed.
RECURSIVE FetchPrepare(_, _, _, _, _, _)
FetchPrepare(als, store, s, at, t, acc) ==
    IF als = <<>> THEN acc
    ELSE LET a == Head(als)
             existing == FindOne(store, a.identifier, s)
             alertIsActive == IsAlertActive(a, t)
         IN IF existing = NoDoc
            THEN FetchPrepare(Tail(als), store, s, at, t,
                    [acc EXCEPT !.news = Append(@,
                        [id |-> 0, identifier |-> a.identifier, sourceId |-> s,
                         sent |-> a.sent, info |-> a.info, poly |-> a.poly, geo |-> FALSE,
                         fetchedAt |-> t, isActive |-> alertIsActive])])
            ELSE IF existing.sent # a.sent \/ existing.isActive # alertIsActive
            THEN FetchPrepare(Tail(als), store, s, at, t,
                    [acc EXCEPT !.ops = Append(@,
                        [identifier |-> a.identifier,
                         sourceId |-> SourceIdOf(a.identifier, at),
                         sent |-> a.sent, info |-> a.info,
                         poly |-> a.poly, fetchedAt |-> t, isActive |-> alertIsActive])])
            ELSE FetchPrepare(Tail(als), store, s, at, t, acc)

\* lines 53-102: CAPAlert.find of the source's alerts returns (or fails:
\* the catch of lines 150-157 records a failed attempt).
FetchFindExisting ==
    /\ get.pc = "existing"
    /\ \E storeOk \in BOOLEAN :
        IF ~storeOk THEN get' = [get EXCEPT !.pc = "recordFail"]
        ELSE LET p == FetchPrepare(get.alerts, alerts, get.src, get.at, now,
                                   [ops |-> <<>>, news |-> <<>>])
             IN get' = [get EXCEPT !.ops = p.ops, !.news = p.news,
                           !.pc = IF p.ops # <<>> THEN "bulk"
                                  ELSE IF p.news # <<>> THEN "insert" ELSE "record"]
    /\ UNCHANGED <<now, sources, alerts, nextId, events, schedVars, ref, objs, adm, pstats, det, area, qry, cache, itm, rq, pace, tmr>>

\* lines 106-109
FetchBulkWrite ==
    /\ get.pc = "bulk"
    /\ alerts' = BulkWrite(alerts, get.ops, get.src)
    /\ get' = [get EXCEPT !.pc = IF get.news # <<>> THEN "insert" ELSE "record"]
    /\ UNCHANGED <<now, sources, nextId, events, schedVars, ref, objs, adm, pstats, det, area, qry, cache, itm, rq, pace, tmr>>

\* lines 111-121 and 140-146: insertMany, then the created documents are
\* read back; a rejected insert is caught and nothing is converted.
FetchInsertMany ==
    /\ get.pc = "insert"
    /\ LET r == InsertMany(alerts, get.news, nextId, [ids |-> <<>>, threw |-> FALSE]) IN
        /\ alerts' = r.store
        /\ nextId' = r.nextId
        /\ get' = IF r.threw THEN [get EXCEPT !.pc = "record"]
                  ELSE [get EXCEPT !.pc = "geo", !.created = r.ids, !.i = 1]
    /\ UNCHANGED <<now, sources, events, schedVars, ref, objs, adm, pstats, det, area, qry, cache, itm, rq, pace, tmr>>

\* lines 124-136, one created alert
FetchConvertAndEmit ==
    /\ get.pc = "geo"
    /\ LET id == get.created[get.i]
           doc == get.news[get.i]
       IN /\ alerts' = SaveGeoJSON(alerts, id, doc.poly)
          /\ events' = Emit(events, "new", id, doc.identifier)
    /\ get' = IF get.i = Len(get.created) THEN [get EXCEPT !.pc = "record"]
              ELSE [get EXCEPT !.i = @ + 1]
    /\ UNCHANGED <<now, sources, nextId, schedVars, ref, objs, adm, pstats, det, area, qry, cache, itm, rq, pace, tmr>>

\* line 149: source.recordFetchAttempt(true); lines 153-156: (false, message)
FetchRecord ==
    /\ get.pc \in {"record", "recordFail"}
    /\ LET ok == get.pc = "record"
           copy == RecordFetchAttempt(get.cur, ok, "store error", now)
       IN /\ sources' = [sources EXCEPT ![get.src] = SaveFetchAttempt(@, get.cur, copy, ok)]
          /\ get' = [get EXCEPT !.pc = "expire", !.cur = copy]
    /\ UNCHANGED <<now, alerts, nextId, events, schedVars, ref, objs, adm, pstats, det, area, qry, cache, itm, rq, pace, tmr>>

\* lines 160-168: every expired alert, of any source, is marked inactive.
FetchExpire ==
    /\ get.pc = "expire"
    /\ alerts' = MarkExpired(alerts, alerts, now)
    /\ get' = [IdleFetch EXCEPT !.n = get.n]
    /\ UNCHANGED <<now, sources, nextId, events, schedVars, ref, objs, adm, pstats, det, area, qry, cache, itm, rq, pace, tmr>>

\* ---------------------------------------------------------- specification
Next ==
    \/ Start
    \/ StartLoaded
    \/ \E s \in SourceIds : TimerFire(s)
    \/ AdvanceTime
    \/ \E n \in Cycles : FindSource(n)
    \/ \E n \in Cycles : ParserFetch(n)
    \/ \E n \in Cycles : GetExistingAlertIdentifiers(n)
    \/ \E n \in Cycles : CompareExisting(n)
    \/ \E n \in Cycles : ProcessBatchUpdate(n)
    \/ \E n \in Cycles : ProcessBatchInsert(n)
    \/ \E n \in Cycles : ConvertAndEmit(n)
    \/ \E n \in Cycles : RecordAttempt(n)
    \/ \E n \in Cycles : ExpireRepair(n)
    \/ CleanupDelete
    \/ CleanupExpire

Spec == Init /\ [][Next]_vars

\* The scheduler with stop() called at any time.
NextStop ==
    \/ Next
    \/ Stop

SpecStop == Init /\ [][NextStop]_vars

\* ------------------------------------------------- the /cap-sources routes
\* CAPSourceSchema.pre('save'): updateMany({ _id: { $ne: this._id } },
\* { isDefault: false })
ClearOtherDefaults(store, s) ==
    [t \in DOMAIN store |-> IF t # s THEN [store[t] EXCEPT !.isDefault = FALSE] ELSE store[t]]

\* PUT /:id arrives; CAPSource.findById is issued.
PutBegin(k, s, d) ==
    /\ adm[k].pc = "idle"
    /\ adm[k].n < MaxAdminReq
    /\ adm' = [adm EXCEPT ![k] = [IdleAdmin EXCEPT !.pc = "put-find", !.n = adm[k].n + 1,
                                                     !.src = s, !.isDefault = d]]
    /\ UNCHANGED <<now, sources, alerts, nextId, events, schedVars, ref, get, objs, pstats, det, area, qry, cache, itm, rq, pace, tmr>>

\* findById returns; the body's isDefault is set on the document and save()
\* is called: its pre-save hook issues the updateMany when isDefault is
\* true and was changed.
PutFound(k) ==
    /\ adm[k].pc = "put-find"
    /\ LET s == adm[k].src IN
        IF s \notin DOMAIN sources
        THEN adm' = [adm EXCEPT ![k].pc = "idle"]
        ELSE LET modified == sources[s].isDefault # adm[k].isDefault IN
             adm' = [adm EXCEPT ![k].modified = modified,
                                ![k].pc = IF adm[k].isDefault /\ modified
                                          THEN "put-hook" ELSE "put-save"]
    /\ UNCHANGED <<now, sources, alerts, nextId, events, schedVars, ref, get, objs, pstats, det, area, qry, cache, itm, rq, pace, tmr>>

\* The hook's updateMany returns; the document's own update is issued.
PutHook(k) ==
    /\ adm[k].pc = "put-hook"
    /\ sources' = ClearOtherDefaults(sources, adm[k].src)
    /\ adm' = [adm EXCEPT ![k].pc = "put-save"]
    /\ UNCHANGED <<now, alerts, nextId, events, schedVars, ref, get, objs, pstats, det, area, qry, cache, itm, rq, pace, tmr>>

\* save() returns: the modified path is set on the stored document (a
\* document deleted meanwhile makes save() throw) and cap-source-update is
\* emitted.
PutSave(k) ==
    /\ adm[k].pc = "put-save"
    /\ LET s == adm[k].src IN
        IF adm[k].modified /\ s \notin DOMAIN sources
        THEN UNCHANGED <<sources, events>>
        ELSE /\ sources' = IF adm[k].modified
                           THEN [sources EXCEPT ![s].isDefault = adm[k].isDefault]
                           ELSE sources
             /\ events' = Emit(events, "source-update", s, s)
    /\ adm' = [adm EXCEPT ![k].pc = "idle"]
    /\ UNCHANGED <<now, alerts, nextId, schedVars, ref, get, objs, pstats, det, area, qry, cache, itm, rq, pace, tmr>>

\* POST / arrives with a name; CAPSource.findOne({ name }) is issued.
PostBegin(k, s, d) ==
    /\ adm[k].pc = "idle"
    /\ adm[k].n < MaxAdminReq
    /\ adm' = [adm EXCEPT ![k] = [IdleAdmin EXCEPT !.pc = "post-find", !.n = adm[k].n + 1,
                                                     !.src = s, !.isDefault = d]]
    /\ UNCHANGED <<now, sources, alerts, nextId, events, schedVars, ref, get, objs, pstats, det, area, qry, cache, itm, rq, pace, tmr>>

\* findOne returns: a taken name is refused; else the new document is
\* saved, through the pre-save hook when it is to be the default.
PostFound(k) ==
    /\ adm[k].pc = "post-find"
    /\ adm' = [adm EXCEPT ![k].pc = IF adm[k].src \in DOMAIN sources THEN "idle"
                                    ELSE IF adm[k].isDefault THEN "post-hook"
                                    ELSE "post-save"]
    /\ UNCHANGED <<now, sources, alerts, nextId, events, schedVars, ref, get, objs, pstats, det, area, qry, cache, itm, rq, pace, tmr>>

\* The hook's updateMany returns; the insert is issued.
PostHook(k) ==
    /\ adm[k].pc = "post-hook"
    /\ sources' = ClearOtherDefaults(sources, adm[k].src)
    /\ adm' = [adm EXCEPT ![k].pc = "post-save"]
    /\ UNCHANGED <<now, alerts, nextId, events, schedVars, ref, get, objs, pstats, det, area, qry, cache, itm, rq, pace, tmr>>

\* The insert returns (the unique index on name rejects a name taken
\* meanwhile) and cap-source-new is emitted.
PostSave(k) ==
    /\ adm[k].pc = "post-save"
    /\ LET s == adm[k].src IN
        IF s \in DOMAIN sources
        THEN UNCHANGED <<sources, events>>
        ELSE /\ sources' = [t \in DOMAIN sources \cup {s} |->
                              IF t = s THEN [NewSource EXCEPT !.isDefault = adm[k].isDefault]
                              ELSE sources[t]]
             /\ events' = Emit(events, "source-new", s, s)
    /\ adm' = [adm EXCEPT ![k].pc = "idle"]
    /\ UNCHANGED <<now, alerts, nextId, schedVars, ref, get, objs, pstats, det, area, qry, cache, itm, rq, pace, tmr>>

\* DELETE /:id arrives; CAPSource.findById is issued.
DeleteBegin(k, s) ==
    /\ adm[k].pc = "idle"
    /\ adm[k].n < MaxAdminReq
    /\ adm' = [adm EXCEPT ![k] = [IdleAdmin EXCEPT !.pc = "del-find", !.n = adm[k].n + 1,
                                                     !.src = s]]
    /\ UNCHANGED <<now, sources, alerts, nextId, events, schedVars, ref, get, objs, pstats, det, area, qry, cache, itm, rq, pace, tmr>>

\* findById returns: for a default source the other sources are counted,
\* any other is deleted at once.
DeleteFound(k) ==
    /\ adm[k].pc = "del-find"
    /\ LET s == adm[k].src IN
        adm' = [adm EXCEPT ![k].pc = IF s \notin DOMAIN sources THEN "idle"
                                      ELSE IF sources[s].isDefault THEN "del-count"
                                      ELSE "del-one"]
    /\ UNCHANGED <<now, sources, alerts, nextId, events, schedVars, ref, get, objs, pstats, det, area, qry, cache, itm, rq, pace, tmr>>

\* countDocuments({ _id: { $ne: source._id } }) returns: the request is
\* refused if there is no other source.
DeleteCount(k) ==
    /\ adm[k].pc = "del-count"
    /\ LET otherSources == Cardinality(DOMAIN sources \ {adm[k].src}) IN
        adm' = [adm EXCEPT ![k].pc = IF otherSources = 0 THEN "idle" ELSE "del-one"]
    /\ UNCHANGED <<now, sources, alerts, nextId, events, schedVars, ref, get, objs, pstats, det, area, qry, cache, itm, rq, pace, tmr>>

\* source.deleteOne() returns; cap-source-delete is emitted.
DeleteOne(k) ==
    /\ adm[k].pc = "del-one"
    /\ sources' = [t \in DOMAIN sources \ {adm[k].src} |-> sources[t]]
    /\ events' = Emit(events, "source-delete", adm[k].src, adm[k].src)
    /\ adm' = [adm EXCEPT ![k].pc = "idle"]
    /\ UNCHANGED <<now, alerts, nextId, schedVars, ref, get, objs, pstats, det, area, qry, cache, itm, rq, pace, tmr>>

\* The /cap-sources requests alone.
NextSources ==
    \/ \E k \in Admins, s \in SourceIds, d \in BOOLEAN : PutBegin(k, s, d)
    \/ \E k \in Admins : PutFound(k)
    \/ \E k \in Admins : PutHook(k)
    \/ \E k \in Admins : PutSave(k)
    \/ \E k \in Admins, s \in SourceIds, d \in BOOLEAN : PostBegin(k, s, d)
    \/ \E k \in Admins : PostFound(k)
    \/ \E k \in Admins : PostHook(k)
    \/ \E k \in Admins : PostSave(k)
    \/ \E k \in Admins, s \in SourceIds : DeleteBegin(k, s)
    \/ \E k \in Admins : DeleteFound(k)
    \/ \E k \in Admins : DeleteCount(k)
    \/ \E k \in Admins : DeleteOne(k)

SpecSources == Init /\ [][NextSources]_vars

\* ------------------------------------------- the parser's detail requests
\* An item of fetchAlertsFromSource's index loop (lines 428-451) and its
\* fetchCAPAlert (lines 193-211): a live cache entry is handed out, stamped
\* with the caller's source; else the request is counted and sent.
DetailBegin(k, id, s) ==
    /\ det[k].pc = "idle"
    /\ det[k].n < MaxDetailReq
    /\ IF objs[<<id, now>>] # NoDoc
       THEN /\ objs' = [objs EXCEPT ![<<id, now>>].sourceId = s]
            /\ det' = [det EXCEPT ![k] = [IdleDetail EXCEPT !.n = det[k].n + 1]]
            /\ UNCHANGED pstats
       ELSE /\ pstats' = [pstats EXCEPT !.totalRequests = @ + 1]
            /\ det' = [det EXCEPT ![k] = [pc |-> "get", n |-> det[k].n + 1,
                                          identifier |-> id, src |-> s]]
            /\ UNCHANGED objs
    /\ UNCHANGED <<now, sources, alerts, nextId, events, schedVars, ref, get, adm, area, qry, cache, itm, rq, pace, tmr>>

\* lines 213-234: the response holds the alert; it is transformed, cached
\* and counted, and the caller stamps it.
DetailOk(k) ==
    /\ det[k].pc = "get"
    /\ \E a \in {X1, X2, M1} :
        /\ a.identifier = det[k].identifier
        /\ objs' = [objs EXCEPT ![<<a.identifier, now>>] = [data |-> a, sourceId |-> det[k].src]]
    /\ pstats' = [pstats EXCEPT !.successfulRequests = @ + 1]
    /\ det' = [det EXCEPT ![k].pc = "idle"]
    /\ UNCHANGED <<now, sources, alerts, nextId, events, schedVars, ref, get, adm, area, qry, cache, itm, rq, pace, tmr>>

\* lines 218-221: a response without an alert; null is returned.
DetailEmpty(k) ==
    /\ det[k].pc = "get"
    /\ det' = [det EXCEPT ![k].pc = "idle"]
    /\ UNCHANGED <<now, sources, alerts, nextId, events, schedVars, ref, get, objs, adm, pstats, area, qry, cache, itm, rq, pace, tmr>>

\* lines 235-263: the request failed and is counted; on a 404 the HTML
\* fallback is tried.
DetailFail(k, status404) ==
    /\ det[k].pc = "get"
    /\ pstats' = [pstats EXCEPT !.failedRequests = @ + 1]
    /\ det' = [det EXCEPT ![k].pc = IF status404 THEN "html" ELSE "idle"]
    /\ UNCHANGED <<now, sources, alerts, nextId, events, schedVars, ref, get, objs, adm, area, qry, cache, itm, rq, pace, tmr>>

\* lines 253-260: fetchCAPAlertFromHTML returns; a recovered alert counts
\* as a fallback and a success, and the failure is taken back.
FallbackDone(k, recovered) ==
    /\ det[k].pc = "html"
    /\ pstats' = IF recovered
                 THEN [pstats EXCEPT !.htmlFallbacks = @ + 1,
                                     !.successfulRequests = @ + 1,
                                     !.failedRequests = @ - 1]
                 ELSE pstats
    /\ det' = [det EXCEPT ![k].pc = "idle"]
    /\ UNCHANGED <<now, sources, alerts, nextId, events, schedVars, ref, get, objs, adm, area, qry, cache, itm, rq, pace, tmr>>

\* The parser's detail requests alone, as time passes.
NextParser ==
    \/ AdvanceTime
    \/ \E k \in Details, id \in Identifiers, s \in SourceIds : DetailBegin(k, id, s)
    \/ \E k \in Details : DetailOk(k)
    \/ \E k \in Details : DetailEmpty(k)
    \/ \E k \in Details, status404 \in BOOLEAN : DetailFail(k, status404)
    \/ \E k \in Details, recovered \in BOOLEAN : FallbackDone(k, recovered)

SpecParser == Init /\ [][NextParser]_vars

\* --------------------------------------------- convertToGeoJSON (polygons)
\* parseFloat of a token "lat,lon": the number up to the comma.
ParseFloat(token) == token[1]

\* cleanAlertData.isValidCoordinate, as inlined in convertToGeoJSON
IsValidCoordinate(lat, lon) ==
    lat >= -90 /\ lat <= 90 /\ lon >= -180 /\ lon <= 180

\* convertToGeoJSON lines 268-288: the tokens of the string, split at white
\* space, are taken two by two as a latitude and a longitude.
RECURSIVE RingPoints(_, _, _)
RingPoints(points, i, ring) ==
    IF i > Len(points) THEN ring
    ELSE IF i + 1 <= Len(points)
    THEN LET lat == ParseFloat(points[i])
             lon == ParseFloat(points[i + 1])
         IN RingPoints(points, i + 2,
                       IF IsValidCoordinate(lat, lon) THEN Append(ring, <<lon, lat>>) ELSE ring)
    ELSE RingPoints(points, i + 2, ring)

\* lines 289-299: a ring of three or more points is closed if it is not.
CloseRing(ring) ==
    IF ring[1] # ring[Len(ring)] THEN Append(ring, ring[1]) ELSE ring

\* cleanAlertData.ts doSegmentsIntersect, its ccw
Ccw(a, b, c) == (c[2] - a[2]) * (b[1] - a[1]) - (b[2] - a[2]) * (c[1] - a[1])

Min2(a, b) == IF a <= b THEN a ELSE b
Max2(a, b) == IF a >= b THEN a ELSE b

\* cleanAlertData.ts isPointOnSegment
IsPointOnSegment(p1, p2, p) ==
    /\ Min2(p1[1], p2[1]) <= p[1] /\ p[1] <= Max2(p1[1], p2[1])
    /\ Min2(p1[2], p2[2]) <= p[2] /\ p[2] <= Max2(p1[2], p2[2])

\* cleanAlertData.ts doSegmentsIntersect
DoSegmentsIntersect(p1, p2, p3, p4) ==
    LET d1 == Ccw(p1, p2, p3)
        d2 == Ccw(p1, p2, p4)
        d3 == Ccw(p3, p4, p1)
        d4 == Ccw(p3, p4, p2)
    IN \/ d1 * d2 < 0 /\ d3 * d4 < 0
       \/ d1 = 0 /\ IsPointOnSegment(p1, p2, p3)
       \/ d2 = 0 /\ IsPointOnSegment(p1, p2, p4)
       \/ d3 = 0 /\ IsPointOnSegment(p3, p4, p1)
       \/ d4 = 0 /\ IsPointOnSegment(p3, p4, p2)

\* cleanAlertData.ts isValidPolygonRing (ring[k] of the code is ring[k + 1])
IsValidPolygonRing(ring) ==
    /\ Len(ring) >= 4
    /\ LET n == Len(ring) - 1 IN
        \A i \in 0..(n - 1) : \A j \in (i + 2)..(n - 1) :
            ~(i = 0 /\ j = n - 1)
            => ~DoSegmentsIntersect(ring[i + 1], ring[((i + 1) % n) + 1],
                                    ring[j + 1], ring[((j + 1) % n) + 1])

Reverse(ring) == [k \in 1..Len(ring) |-> ring[Len(ring) + 1 - k]]

\* cleanAlertData.ts tryFixPolygonRing: the reversed ring if that is valid,
\* else null (the empty ring)
TryFixPolygonRing(ring) ==
    IF Len(ring) < 4 THEN <<>>
    ELSE IF IsValidPolygonRing(Reverse(ring)) THEN Reverse(ring)
    ELSE <<>>

\* lines 266-300: the closed rings of the polygon strings that yield three
\* points or more.
RECURSIVE RingsOfStrings(_, _)
RingsOfStrings(polygon, coords) ==
    IF polygon = <<>> THEN coords
    ELSE LET ring == RingPoints(Head(polygon), 1, <<>>) IN
         RingsOfStrings(Tail(polygon),
                        IF Len(ring) >= 3 THEN Append(coords, CloseRing(ring)) ELSE coords)

\* lines 302-317: a ring that is valid, or that reversing makes valid, is
\* kept.
RECURSIVE ValidRings(_, _)
ValidRings(coords, validCoords) ==
    IF coords = <<>> THEN validCoords
    ELSE LET ring == Head(coords)
             fixedRing == TryFixPolygonRing(ring)
         IN ValidRings(Tail(coords),
                       IF IsValidPolygonRing(ring) THEN Append(validCoords, ring)
                       ELSE IF fixedRing # <<>> THEN Append(validCoords, fixedRing)
                       ELSE validCoords)

\* convertToGeoJSON for the polygons of one area (lines 263-326): the
\* area's geoJson afterwards.
ConvertPolygons(a) ==
    IF a.polygon = <<>> THEN a.geoJson
    ELSE LET validCoords == ValidRings(RingsOfStrings(a.polygon, <<>>), <<>>) IN
         IF validCoords = <<>> THEN a.geoJson
         ELSE IF Len(validCoords) = 1
         THEN [type |-> "Polygon", coordinates |-> validCoords]
         ELSE [type |-> "MultiPolygon",
               coordinates |-> [k \in 1..Len(validCoords) |-> <<validCoords[k]>>]]

\* alert.convertToGeoJSON() on a document with one area
ConvertToGeoJSON ==
    /\ ~area.converted
    /\ area' = [area EXCEPT !.geoJson = ConvertPolygons(area), !.converted = TRUE]
    /\ UNCHANGED <<now, sources, alerts, nextId, events, schedVars, ref, get, objs, adm,
                   pstats, det, qry, cache, itm, rq, pace, tmr>>

\* Polygon strings "lat,lon lat,lon ..." of up to MaxTokens tokens.
RECURSIVE PolygonStrings(_)
PolygonStrings(n) ==
    IF n = 0 THEN {<<>>}
    ELSE LET shorter == PolygonStrings(n - 1) IN
         shorter \cup {Append(str, <<lat, lon>>) :
                          str \in {t \in shorter : Len(t) = n - 1}, lat \in Lats, lon \in Lons}

\* The areas a parsed alert can carry: no polygon, or one polygon string.
InitGeo ==
    /\ InitWith({"A"})
    /\ \E str \in PolygonStrings(MaxTokens) :
          area \in {NoArea, [NoArea EXCEPT !.polygon = <<str>>]}

NextGeo == ConvertToGeoJSON

SpecGeo == InitGeo /\ [][NextGeo]_vars

\* ------------------------------------- the parser's response cache
\* In SpecCache one tick of the clock is 2.5 minutes, so that an entry can
\* be younger than, exactly as old as, and older than CACHE_TTL.

\* An entry whose age has reached the TTL still counts as fresh.
CacheFreshInclusive(entry, t) == entry # NoTime /\ t - entry <= CACHE_TTL

\* capParser.ts lines 205 and 435:
\* cached && Date.now() - cached.timestamp < this.CACHE_TTL
CacheFresh(entry, t) == entry # NoTime /\ t - entry < CACHE_TTL

\* cleanupCache, lines 321-328: entries older than the TTL are deleted.
CleanupCache(c, t) ==
    [id \in DOMAIN c |-> IF c[id] # NoTime /\ t - c[id] > CACHE_TTL THEN NoTime ELSE c[id]]

\* One item of fetchAlertsFromSource's loop, lines 427-448, up to its first
\* await: a fresh cache entry is returned; otherwise fetchCAPAlert counts
\* the request, finds no fresh entry either, and issues the HTTP GET.
CacheLookup(k, id) ==
    /\ itm[k].pc = "idle"
    /\ itm[k].n < MaxLookups
    /\ IF CacheFresh(cache[id], now)
       THEN /\ itm' = [itm EXCEPT ![k] = [pc |-> "idle", n |-> itm[k].n + 1, identifier |-> id,
                                          hit |-> TRUE, age |-> now - cache[id]]]
            /\ pstats' = pstats
       ELSE /\ itm' = [itm EXCEPT ![k] = [pc |-> "http", n |-> itm[k].n + 1, identifier |-> id,
                                          hit |-> FALSE, age |-> 0]]
            /\ pstats' = [pstats EXCEPT !.totalRequests = @ + 1]
    /\ UNCHANGED <<now, sources, alerts, nextId, events, schedVars, ref, get, objs, adm,
                   det, area, qry, cache, rq, pace, tmr>>

\* fetchCAPAlert lines 213-234: the response carries an alert; it is cached
\* under the identifier with the current time and the cache is swept.
CacheStore(k) ==
    /\ itm[k].pc = "http"
    /\ cache' = CleanupCache([cache EXCEPT ![itm[k].identifier] = now], now)
    /\ pstats' = [pstats EXCEPT !.successfulRequests = @ + 1]
    /\ itm' = [itm EXCEPT ![k].pc = "idle"]
    /\ UNCHANGED <<now, sources, alerts, nextId, events, schedVars, ref, get, objs, adm,
                   det, area, qry, rq, pace, tmr>>

\* fetchCAPAlert lines 235-238: the request failed; nothing is cached.
CacheRequestFails(k) ==
    /\ itm[k].pc = "http"
    /\ pstats' = [pstats EXCEPT !.failedRequests = @ + 1]
    /\ itm' = [itm EXCEPT ![k].pc = "idle"]
    /\ UNCHANGED <<now, sources, alerts, nextId, events, schedVars, ref, get, objs, adm,
                   det, area, qry, cache, rq, pace, tmr>>

\* The clock of SpecCache moves on.
CacheTick ==
    /\ now < MaxCacheTime
    /\ now' = now + 1
    /\ UNCHANGED <<sources, alerts, nextId, events, schedVars, ref, get, objs, adm,
                   pstats, det, area, qry, cache, itm, rq, pace, tmr>>

NextCache ==
    \/ \E k \in Items, id \in Identifiers : CacheLookup(k, id)
    \/ \E k \in Items : CacheStore(k)
    \/ \E k \in Items : CacheRequestFails(k)
    \/ CacheTick

SpecCache == Init /\ [][NextCache]_vars

\* --------------------------------------------- the parser's retry policy
\* What a GET can end with: no response (a network error, 0) or a status.
Answers == {0, 200, 404, 429, 500, 503}

\* retryDelay, lines 112-115: retryCount * 1000
RetryDelay(retryCount) == retryCount * 1000

\* retryCondition, lines 116-122: a network error (and, for a GET, what
\* isNetworkOrIdempotentRequestError takes: no response or a 5xx), or a
\* status of 500 and above.
RetryCondition(answer) == answer = 0 \/ answer >= 500

\* axiosInstance.get(url): the request is sent for the first time.
HttpSend ==
    /\ rq.pc = "idle"
    /\ rq.n < MaxRequests
    /\ rq' = [IdleRequest EXCEPT !.pc = "sent", !.n = rq.n + 1, !.attempts = 1]
    /\ UNCHANGED <<now, sources, alerts, nextId, events, schedVars, ref, get, objs, adm,
                   pstats, det, area, qry, cache, itm, pace, tmr>>

\* The attempt is answered.  axios-retry's response interceptor: a failure
\* that retryCondition accepts is retried while retryCount < retries; the
\* count is raised and the request waits retryDelay(retryCount).
HttpAnswer(answer) ==
    /\ rq.pc = "sent"
    /\ LET r == [rq EXCEPT !.log = Append(@, answer)] IN
         IF answer = 200
         THEN rq' = [r EXCEPT !.pc = "ok"]
         ELSE IF RetryCondition(answer) /\ rq.retryCount < Retries
         THEN rq' = [r EXCEPT !.pc = "waiting", !.retryCount = @ + 1,
                              !.waits = Append(@, RetryDelay(rq.retryCount + 1))]
         ELSE rq' = [r EXCEPT !.pc = "failed"]
    /\ UNCHANGED <<now, sources, alerts, nextId, events, schedVars, ref, get, objs, adm,
                   pstats, det, area, qry, cache, itm, pace, tmr>>

\* The delay is over: the request is sent again.
HttpRetry ==
    /\ rq.pc = "waiting"
    /\ rq' = [rq EXCEPT !.pc = "sent", !.attempts = @ + 1]
    /\ UNCHANGED <<now, sources, alerts, nextId, events, schedVars, ref, get, objs, adm,
                   pstats, det, area, qry, cache, itm, pace, tmr>>

\* The caller has its response or its error; the next request can be made.
HttpDone ==
    /\ rq.pc \in {"ok", "failed"}
    /\ rq' = [rq EXCEPT !.pc = "idle"]
    /\ UNCHANGED <<now, sources, alerts, nextId, events, schedVars, ref, get, objs, adm,
                   pstats, det, area, qry, cache, itm, pace, tmr>>

NextRetry ==
    \/ HttpSend
    \/ \E answer \in Answers : HttpAnswer(answer)
    \/ HttpRetry
    \/ HttpDone

SpecRetry == Init /\ [][NextRetry]_vars

\* ------------------------------------------ the parser's pacing of items
\* fetchAlertsFromSource lines 415-428: the feed has `count` items; the
\* first maxAlertsPerBatch are mapped at once.  The callback of item 0 runs
\* on to its detail request; every other callback sets a timer of ItemDelay.
ParserMap(count) ==
    /\ pace.pc = "idle"
    /\ LET n == IF count < maxAlertsPerBatch THEN count ELSE maxAlertsPerBatch IN
         pace' = [pace EXCEPT !.pc = "items", !.n = n,
                              !.starts = IF n > 0 THEN <<pace.clock>> ELSE <<>>]
    /\ UNCHANGED <<now, sources, alerts, nextId, events, schedVars, ref, get, objs, adm,
                   pstats, det, area, qry, cache, itm, rq, tmr>>

\* The timer of the next item fires, not before its delay is over and in
\* the order the timers were set: the item starts its detail request.
ItemTimer ==
    /\ pace.pc = "items"
    /\ Len(pace.starts) >= 1
    /\ Len(pace.starts) < pace.n
    /\ pace.clock >= pace.starts[1] + ItemDelay
    /\ pace' = [pace EXCEPT !.starts = Append(@, pace.clock)]
    /\ UNCHANGED <<now, sources, alerts, nextId, events, schedVars, ref, get, objs, adm,
                   pstats, det, area, qry, cache, itm, rq, tmr>>

\* The millisecond clock moves on.
PaceTick ==
    /\ pace.pc = "items"
    /\ pace.clock < MaxPaceClock
    /\ pace' = [pace EXCEPT !.clock = @ + ItemDelay]
    /\ UNCHANGED <<now, sources, alerts, nextId, events, schedVars, ref, get, objs, adm,
                   pstats, det, area, qry, cache, itm, rq, tmr>>

\* Promise.allSettled, line 462: every item has been processed.
AllSettled ==
    /\ pace.pc = "items"
    /\ Len(pace.starts) = pace.n
    /\ pace' = [pace EXCEPT !.pc = "done"]
    /\ UNCHANGED <<now, sources, alerts, nextId, events, schedVars, ref, get, objs, adm,
                   pstats, det, area, qry, cache, itm, rq, tmr>>

NextPace ==
    \/ \E count \in 0..MaxRssItems : ParserMap(count)
    \/ ItemTimer
    \/ PaceTick
    \/ AllSettled

SpecPace == Init /\ [][NextPace]_vars

\* ------------------------------------------- the scheduler's timers
\* The variables the calls on the scheduler's timers leave alone.
timerFrame == <<now, alerts, nextId, started, cyc, ref, get, objs, pstats, det, area, qry,
                cache, itm, rq, pace>>

\* clearInterval(handle)
ClearInterval(live, handle) == {x \in live : x.h # handle}

\* scheduleSourceFetching without its clearInterval of the existing timer
ScheduleKeepsOldTimer(t, s) ==
    [t EXCEPT !.live = @ \cup {[h |-> t.next, src |-> s]},
              !.map[s] = t.next,
              !.next = @ + 1,
              !.chk[s] = @ + 1]

\* scheduleSourceFetching, lines 149-167: the timer the map holds for the
\* source is cleared, the initial fetch is started (it awaits findById), a
\* new timer is set and recorded under the source id.
ScheduleSourceFetching(t, s) ==
    [t EXCEPT !.live = (IF t.map[s] # 0 THEN ClearInterval(@, t.map[s]) ELSE @)
                          \cup {[h |-> t.next, src |-> s]},
              !.map[s] = t.next,
              !.next = @ + 1,
              !.chk[s] = @ + 1]

\* removeSourceInterval, lines 468-474
RemoveSourceTimer(t, s) ==
    IF t.map[s] # 0
    THEN [t EXCEPT !.live = ClearInterval(@, t.map[s]), !.map[s] = 0]
    ELSE t

RECURSIVE ScheduleEach(_, _)
ScheduleEach(t, list) ==
    IF list = <<>> THEN t
    ELSE ScheduleEach(ScheduleSourceFetching(t, Head(list)), Tail(list))

RECURSIVE ClearEach(_, _)
ClearEach(live, handles) ==
    IF handles = {} THEN live
    ELSE LET h == CHOOSE x \in handles : TRUE IN
         ClearEach(ClearInterval(live, h), handles \ {h})

\* The intervals map as the map of handles has it.
DueTimes(t) ==
    [s \in SourceIds |-> IF t.map[s] = 0 THEN NoTime
                        ELSE now + FetchInterval]

\* start(), lines 46-55: refused while running; else isRunning is set and
\* getActiveSources is awaited.
TimersStart ==
    /\ tmr.starts < MaxStarts
    /\ ~isRunning
    /\ isRunning' = TRUE
    /\ startPc' = "loading"
    /\ tmr' = [tmr EXCEPT !.starts = @ + 1, !.loading = @ + 1]
    /\ UNCHANGED <<timerFrame, sources, events, adm, intervals, cleanupTimer, stats, jan>>

\* start(), lines 56-63: every active source is scheduled, then
\* startCleanupTimer runs a first cleanupOldAlerts and sets its timer.
TimersStartLoaded ==
    /\ tmr.loading > 0
    /\ tmr.next + Len(ActiveSources) <= MaxHandles + 1
    /\ LET t == ScheduleEach(tmr, ActiveSources) IN
        /\ tmr' = [t EXCEPT !.loading = @ - 1]
        /\ intervals' = DueTimes(t)
        /\ stats' = [stats EXCEPT !.totalFetches = @ + Len(ActiveSources)]
    /\ startPc' = IF tmr.loading = 1 THEN "done" ELSE "loading"
    /\ jan' = [pc |-> "delete", cutoff |-> now - OLD_ALERT_THRESHOLD]
    /\ cleanupTimer' = TRUE
    /\ UNCHANGED <<timerFrame, sources, events, adm, isRunning>>

\* stop(), lines 71-89: every timer of the map is cleared, the map is
\* emptied, the janitor's timer is cleared.
TimersStop ==
    /\ LET t == [tmr EXCEPT !.live = ClearEach(@, {tmr.map[s] : s \in SourceIds} \ {0}),
                            !.map = [s \in SourceIds |-> 0]] IN
        /\ tmr' = t
        /\ intervals' = DueTimes(t)
    /\ cleanupTimer' = FALSE
    /\ isRunning' = FALSE
    /\ UNCHANGED <<timerFrame, sources, events, adm, startPc, stats, jan>>

\* updateSource(sourceId), line 451: findById is awaited.
UpdateSourceBegin(s) ==
    /\ tmr.updates < MaxUpdates
    /\ tmr' = [tmr EXCEPT !.updates = @ + 1, !.upd[s] = @ + 1]
    /\ UNCHANGED <<timerFrame, sources, events, adm, isRunning, startPc, intervals,
                   cleanupTimer, stats, jan>>

\* updateSource, lines 453-462: a missing or inactive source loses its
\* timer, an active one is scheduled anew.
UpdateSourceFound(s) ==
    /\ tmr.upd[s] > 0
    /\ LET t0 == [tmr EXCEPT !.upd[s] = @ - 1]
           active == s \in DOMAIN sources /\ sources[s].isActive
           t == IF active THEN ScheduleSourceFetching(t0, s) ELSE RemoveSourceTimer(t0, s)
       IN /\ active => tmr.next <= MaxHandles
          /\ tmr' = t
          /\ intervals' = DueTimes(t)
          /\ stats' = IF active THEN [stats EXCEPT !.totalFetches = @ + 1] ELSE stats
    /\ UNCHANGED <<timerFrame, sources, events, adm, isRunning, startPc, cleanupTimer, jan>>

\* removeSourceInterval(sourceId) called from outside
RemoveCall(s) ==
    /\ tmr.removes < MaxRemoves
    /\ LET t == RemoveSourceTimer([tmr EXCEPT !.removes = @ + 1], s) IN
        /\ tmr' = t
        /\ intervals' = DueTimes(t)
    /\ UNCHANGED <<timerFrame, sources, events, adm, isRunning, startPc, cleanupTimer,
                   stats, jan>>

\* A live timer fires: fetchAlertsFromSource(source) counts the fetch and
\* awaits findById (lines 351-356).
TimerCallback(h) ==
    /\ tmr.callbacks < MaxCallbacks
    /\ \E x \in tmr.live :
          /\ x.h = h
          /\ tmr' = [tmr EXCEPT !.callbacks = @ + 1, !.chk[x.src] = @ + 1]
    /\ stats' = [stats EXCEPT !.totalFetches = @ + 1]
    /\ UNCHANGED <<timerFrame, sources, events, adm, isRunning, startPc, intervals,
                   cleanupTimer, jan>>

\* fetchAlertsFromSource, lines 355-376: findById returns.  A missing or
\* inactive source has its timer removed and the cycle ends; a store error
\* is counted and the cycle ends.  Otherwise the cycle goes on (ParserFetch
\* to ExpireRepair); none of its further steps reads or writes a timer.
CycleChecked(s, dbError) ==
    /\ tmr.chk[s] > 0
    /\ LET t0 == [tmr EXCEPT !.chk[s] = @ - 1]
           gone == s \notin DOMAIN sources \/ ~sources[s].isActive
           t == IF ~dbError /\ gone THEN RemoveSourceTimer(t0, s) ELSE t0
       IN /\ tmr' = t
          /\ intervals' = DueTimes(t)
    /\ stats' = IF dbError THEN [stats EXCEPT !.failedFetches = @ + 1] ELSE stats
    /\ UNCHANGED <<timerFrame, sources, events, adm, isRunning, startPc, cleanupTimer, jan>>

\* DELETE /:id arrives (in SpecTimers these requests are served by one
\* slot, MaxDeletes of them).
TimersDeleteBegin(s) ==
    /\ adm[1].n < MaxDeletes
    /\ DeleteBegin(1, s)

\* The store holds the default source A and a source B, active or not.
InitTimers ==
    /\ \E active \in BOOLEAN :
          InitOver([s \in SourceIds |->
                       IF s = "A" THEN [NewSource EXCEPT !.isDefault = TRUE]
                       ELSE [NewSource EXCEPT !.isActive = active]])
    /\ area = NoArea

NextTimers ==
    \/ TimersStart
    \/ TimersStartLoaded
    \/ TimersStop
    \/ \E s \in SourceIds : UpdateSourceBegin(s)
    \/ \E s \in SourceIds : UpdateSourceFound(s)
    \/ \E s \in SourceIds : RemoveCall(s)
    \/ \E h \in 1..MaxHandles : TimerCallback(h)
    \/ \E s \in SourceIds, dbError \in BOOLEAN : CycleChecked(s, dbError)
    \/ CleanupDelete
    \/ CleanupExpire
    \/ \E s \in SourceIds : TimersDeleteBegin(s)
    \/ DeleteFound(1)
    \/ DeleteCount(1)
    \/ DeleteOne(1)

SpecTimers == InitTimers /\ [][NextTimers]_vars

\* ------------------------------------------------ GET /cap-alerts/active
\* capAlerts.ts lines 200-207: findActiveAlerts is answered from the store
\* as it is.
GetActive ==
    /\ qry' = [at |-> now, result |-> FindActiveAlerts(alerts, now)]
    /\ UNCHANGED <<now, sources, alerts, nextId, events, schedVars, ref, get, objs, adm,
                   pstats, det, area, cache, itm, rq, pace, tmr>>

\* The scheduler with GET /cap-alerts/active asked at any time.
NextQuery ==
    \/ Next
    \/ GetActive

SpecQuery == Init /\ [][NextQuery]_vars

\* The scheduler's first cycle together with the two manual requests.
NextApi ==
    \/ Start
    \/ StartLoaded
    \/ \E n \in Cycles : FindSource(n)
    \/ \E n \in Cycles : ParserFetch(n)
    \/ \E n \in Cycles : GetExistingAlertIdentifiers(n)
    \/ \E n \in Cycles : CompareExisting(n)
    \/ \E n \in Cycles : ProcessBatchUpdate(n)
    \/ \E n \in Cycles : ProcessBatchInsert(n)
    \/ \E n \in Cycles : ConvertAndEmit(n)
    \/ \E n \in Cycles : RecordAttempt(n)
    \/ \E n \in Cycles : ExpireRepair(n)
    \/ \E s \in SourceIds : RefreshBegin(s)
    \/ RefreshFindSource
    \/ RefreshFetch
    \/ RefreshFindOne
    \/ RefreshSave
    \/ RefreshTouchSource
    \/ \E s \in SourceIds : FetchBegin(s)
    \/ FetchFindSource
    \/ FetchParser
    \/ FetchFindExisting
    \/ FetchBulkWrite
    \/ FetchInsertMany
    \/ FetchConvertAndEmit
    \/ FetchRecord
    \/ FetchExpire

SpecApi == Init /\ [][NextApi]_vars

\* The scheduler's first cycle together with manual refresh requests only,
\* while time passes.
NextRefresh ==
    \/ Start
    \/ StartLoaded
    \/ AdvanceTime
    \/ \E n \in Cycles : FindSource(n)
    \/ \E n \in Cycles : ParserFetch(n)
    \/ \E n \in Cycles : GetExistingAlertIdentifiers(n)
    \/ \E n \in Cycles : CompareExisting(n)
    \/ \E n \in Cycles : ProcessBatchUpdate(n)
    \/ \E n \in Cycles : ProcessBatchInsert(n)
    \/ \E n \in Cycles : ConvertAndEmit(n)
    \/ \E n \in Cycles : RecordAttempt(n)
    \/ \E n \in Cycles : ExpireRepair(n)
    \/ \E s \in SourceIds : RefreshBegin(s)
    \/ RefreshFindSource
    \/ RefreshFetch
    \/ RefreshFindOne
    \/ RefreshSave
    \/ RefreshTouchSource

SpecRefresh == Init /\ [][NextRefresh]_vars

\* The first cycles of the scheduler over two sources.
NextTwo ==
    \/ Start
    \/ StartLoaded
    \/ AdvanceTime
    \/ \E n \in Cycles : FindSource(n)
    \/ \E n \in Cycles : ParserFetch(n)
    \/ \E n \in Cycles : GetExistingAlertIdentifiers(n)
    \/ \E n \in Cycles : CompareExisting(n)
    \/ \E n \in Cycles : ProcessBatchUpdate(n)
    \/ \E n \in Cycles : ProcessBatchInsert(n)
    \/ \E n \in Cycles : ConvertAndEmit(n)
    \/ \E n \in Cycles : RecordAttempt(n)
    \/ \E n \in Cycles : ExpireRepair(n)

SpecTwo == InitTwo /\ [][NextTwo]_vars

\* ================================================================= claims
\* A cycle that has passed its due check and not yet ended.
Working(n) == cyc[n].pc \in {"fetch", "existing", "compare", "bulk", "insert",
                             "geo", "record", "repair"}

NumEvents(type, id) ==
    Cardinality({k \in DOMAIN events : events[k].type = type /\ events[k].id = id})

\* C1: for any one source at most one fetch cycle is executing at any time:
\* no tick or initial fetch gets a second cycle of the source past its due
\* check while an earlier one has not finished.
C1_AtMostOneCycleInFlight ==
    \A a, b \in Cycles :
        (a # b /\ cyc[a].src = cyc[b].src) => ~(Working(a) /\ Working(b))

\* No expires of the alerts lies in the span from t1 to t2.
NoExpiryBetween(als, t1, t2) ==
    \A i \in DOMAIN als : \A j \in DOMAIN als[i].info :
        als[i].info[j] < t1 \/ als[i].info[j] > t2

\* Cycle n ran alone, right after cycle n-1 of the same source had finished.
Successive(n) ==
    /\ n > 1
    /\ cyc[n].solo
    /\ cyc[n - 1].pc = "done"
    /\ cyc[n - 1].src = cyc[n].src
    /\ \A k \in Cycles : k > n => cyc[k].pc = "idle"

\* C2: a cycle that receives exactly the alerts the previous completed cycle
\* of the source received, with no expires instant in between, counts no
\* new and no updated alert (it inserts and modifies nothing).
C2_IdempotentReplay ==
    \A n \in Cycles :
        ( /\ Successive(n)
          /\ cyc[n].pc = "record"
          /\ cyc[n].alerts # <<>>
          /\ cyc[n].alerts = cyc[n - 1].alerts
          /\ NoExpiryBetween(cyc[n].alerts, cyc[n - 1].t0, now) )
        => (cyc[n].newCount = 0 /\ cyc[n].updatedCount = 0)

\* C3: under every interleaving of scheduler cycles, GET /fetch and POST
\* /refresh requests, no two stored alerts have the same sourceId and
\* identifier.
C3_UniqueSourceIdentifier ==
    \A d, e \in alerts :
        (d.sourceId = e.sourceId /\ d.identifier = e.identifier) => d = e

\* A cycle found an identifier absent, a request stored it meanwhile, and the
\* cycle's insertMany was rejected for it.
C3_Witness ==
    \E n \in Cycles :
        /\ cyc[n].pc = "record"
        /\ cyc[n].errorCount > 0
        /\ \E i \in DOMAIN cyc[n].news : \E d \in alerts :
              d.identifier = cyc[n].news[i].identifier /\ d.sourceId = cyc[n].src

\* C4: when a cycle ends with its expired-bit repair, every stored alert of
\* its source is active iff one of its info blocks expires after now.
C4_ActiveIffUnexpired ==
    [][\A n \in Cycles :
          (cyc[n].pc = "repair" /\ cyc'[n].pc = "done")
          => \A d \in OfSource(alerts', cyc[n].src) :
                d.isActive <=> IsAlertActive(d, now')]_vars

\* No start() or cycle is under way.
NoCycleRunning == startPc # "loading" /\ \A n \in Cycles : cyc[n].pc \in {"idle", "done"}

\* C5: once the cycles that stored them have ended, every stored alert has
\* had exactly one `new` event.
C5_ExactlyOneNew ==
    NoCycleRunning => \A d \in alerts : NumEvents("new", d.id) = 1

\* C6: a cycle that receives a stored identifier with a later sent leaves
\* one record for it, the one announced before, carrying the new sent and
\* expires, with one `update` event and still one `new` event.
C6_UpdateInPlaceWithEvent ==
    \A n \in Cycles :
        (Successive(n) /\ cyc[n].pc = "record")
        => \A i \in DOMAIN cyc[n - 1].alerts : \A j \in DOMAIN cyc[n].alerts :
            LET old == cyc[n - 1].alerts[i]
                a == cyc[n].alerts[j]
                docs == {d \in OfSource(alerts, cyc[n].src) : d.identifier = a.identifier}
            IN (old.identifier = a.identifier /\ old.sent < a.sent
                    /\ a.identifier \in cyc[n].existing)
               => /\ Cardinality(docs) = 1
                  /\ \A d \in docs : /\ d.sent = a.sent
                                     /\ d.info = a.info
                                     /\ NumEvents("new", d.id) = 1
                                     /\ NumEvents("update", d.id) = 1

\* C7: when a cycle's repair or the janitor sweep ends, every alert it
\* turned from active to inactive has an `expire` event.
C7_ExpireEmitted ==
    [][/\ \A n \in Cycles :
            (cyc[n].pc = "repair" /\ cyc'[n].pc = "done")
            => \A d \in Expirable(alerts, OfSource(alerts, cyc[n].src), now) :
                  \E k \in DOMAIN events' :
                      events'[k].type = "expire" /\ events'[k].id = d.id
       /\ (jan.pc = "expire" /\ jan'.pc = "idle")
            => \A d \in Expirable(alerts, alerts, now) :
                  \E k \in DOMAIN events' :
                      events'[k].type = "expire" /\ events'[k].id = d.id]_vars

\* C8: in the emitted sequence every `update` event of an alert comes after
\* a `new` event of that alert, however a cycle and a refresh interleave.
C8_NewBeforeUpdate ==
    \A k \in DOMAIN events :
        events[k].type = "update"
        => \E j \in 1..(k - 1) : events[j].type = "new" /\ events[j].id = events[k].id

\* C9: every stored source has totalFetches = successfulFetches +
\* failedFetches, whatever copies of it recorded attempts and were saved.
C9_FetchCountersAddUp ==
    \A s \in DOMAIN sources :
        sources[s].totalFetches = sources[s].successfulFetches + sources[s].failedFetches

\* C10: a cycle whose index request failed counts a failed fetch in the
\* scheduler's stats and records a failed attempt on the source.
C10_FailedFetchRecorded ==
    [][\A n \in Cycles :
          /\ (cyc[n].pc = "fetch" /\ cyc'[n].pc = "existing" /\ ~cyc'[n].rssOk)
             => /\ stats'.failedFetches = stats.failedFetches + 1
                /\ stats'.successfulFetches = stats.successfulFetches
          /\ (cyc[n].pc = "record" /\ cyc'[n].pc = "repair" /\ ~cyc[n].rssOk)
             => /\ sources'[cyc[n].src].failedFetches = sources[cyc[n].src].failedFetches + 1
                /\ sources'[cyc[n].src].successfulFetches = sources[cyc[n].src].successfulFetches
                /\ sources'[cyc[n].src].lastErrorMessage # NoError]_vars

\* Every cycle of source s so far has ended in failure: its index request
\* failed, or the one alert it received was rejected by the store.
OnlyFailed(s) ==
    \A k \in Cycles :
        cyc[k].src = s /\ cyc[k].pc # "idle"
        => /\ cyc[k].pc = "done"
           /\ \/ ~cyc[k].rssOk
              \/ Len(cyc[k].alerts) = 1 /\ cyc[k].errorCount > 0

\* Cycle n is the last cycle of its source, ran alone and has ended, as have
\* all cycles of the source.
LastAlone(n) ==
    /\ cyc[n].pc = "done"
    /\ cyc[n].solo
    /\ \A k \in Cycles :
          cyc[k].src = cyc[n].src /\ cyc[k].pc # "idle" => cyc[k].pc = "done" /\ k <= n

\* C11: while every cycle of source B fails, source A is served as if B did
\* not exist: when A's last cycle, run alone, has ended, every alert it
\* received is stored for A with the sent it was received with.
C11_FailingSourceIsolated ==
    \A n \in Cycles :
        (cyc[n].src = "A" /\ LastAlone(n) /\ cyc[n].alerts # <<>> /\ OnlyFailed("B"))
        => \A i \in DOMAIN cyc[n].alerts :
              \E d \in OfSource(alerts, "A") :
                  /\ d.identifier = cyc[n].alerts[i].identifier
                  /\ d.sent = cyc[n].alerts[i].sent

\* The documents cycle n's insertMany has put into the store.
InsertedBy(n) ==
    {d \in alerts : /\ d.sourceId = cyc[n].src
                    /\ \E i \in DOMAIN cyc[n].news :
                          /\ cyc[n].news[i].identifier = d.identifier
                          /\ cyc[n].news[i].fetchedAt = d.fetchedAt}

\* C12: when processBatch has returned, every alert of the batch that its
\* insertMany stored has its geometry normalized and has been announced by
\* a `new` event, also when another record of the batch was rejected.
C12_RejectedRecordSparesOthers ==
    \A n \in Cycles :
        (cyc[n].pc \in {"record", "repair"} /\ cyc[n].solo)
        => \A d \in InsertedBy(n) :
              /\ NumEvents("new", d.id) >= 1
              /\ d.poly => d.geo

\* No source timer and no janitor timer is armed.
NoTimers == ~cleanupTimer /\ \A s \in DOMAIN intervals : intervals[s] = NoTime

\* C13: when stop() returns no source timer and no janitor timer is armed
\* and isRunning is false, and nothing else has changed; a stop() on a
\* scheduler that is already stopped, or was never started, changes nothing.
C13_StopClearsTimers ==
    [][Stop => /\ NoTimers'
               /\ ~isRunning'
               /\ UNCHANGED <<sources, alerts, nextId, events, stats, cyc, jan>>
               /\ (NoTimers /\ ~isRunning => UNCHANGED vars)]_vars

\* stop() has cleared the timers start() had armed.
C13_Witness ==
    startPc = "done" /\ started > 0 /\ ~isRunning /\ NoTimers

\* stop() has returned on a scheduler that start() had set up.
Stopped == startPc = "done" /\ ~isRunning

\* C14: once stop() has returned, no cycle or sweep that was in flight
\* writes to the alert store, updates a source's counters or emits an event.
C14_IdleAfterStop ==
    [][Stopped => UNCHANGED <<alerts, sources, events>>]_vars

\* The identifiers of a sequence of alerts.
IdsOf(als) == {als[k].identifier : k \in DOMAIN als}

\* Cycle n has read the store for alert x and its write for x is still to
\* come.
CycleComparing(n, x) ==
    \/ cyc[n].pc = "compare" /\ (cyc[n].alerts[cyc[n].i].identifier = x \/ x \in IdsOf(cyc[n].batch))
    \/ cyc[n].pc = "bulk" /\ x \in IdsOf(cyc[n].batch)
    \/ cyc[n].pc = "insert" /\ x \in IdsOf(cyc[n].news)

\* The refresh request of source s is between its findOne and its save of
\* alert x.
RefreshComparing(s, x) ==
    ref.pc = "save" /\ ref.src = s /\ ref.alerts[ref.i].identifier = x

\* C15: a refresh request and a scheduled cycle of the same source are never
\* both between their read and their write of the same alert.
C15_OneWriterPerAlert ==
    \A n \in Cycles, x \in Identifiers :
        ~(CycleComparing(n, x) /\ RefreshComparing(cyc[n].src, x))

\* The stored sources that are marked default.
Defaults == {s \in DOMAIN sources : sources[s].isDefault}

\* C16: at most one stored source is the default, also while two requests
\* that make two different sources the default are served at once.
C16_AtMostOneDefault ==
    Cardinality(Defaults) <= 1

\* C17: a DELETE that names the only default source is refused, whether or
\* not other sources, none of them default, exist: having loaded a default
\* source and counted the others, the request does not go on to deleteOne
\* while its source is the only default.
C17_LastDefaultKept ==
    [][\A k \in Admins :
          (adm[k].pc = "del-count" /\ Defaults = {adm[k].src})
          => adm'[k].pc # "del-one"]_vars

\* No counter of the record `after` is below its value in `before`.
NoneDecreased(before, after) ==
    \A f \in DOMAIN before : after[f] >= before[f]

\* C20: no counter of the scheduler's stats or of the parser's stats ever
\* decreases, also over a detail request that fails with 404 and is
\* recovered through the HTML fallback.
C20_CountersMonotonic ==
    [][NoneDecreased(stats, stats') /\ NoneDecreased(pstats, pstats')]_vars

\* The rings of the area's geoJson.
GeoRings ==
    IF area.geoJson = NoDoc THEN {}
    ELSE IF area.geoJson.type = "Polygon"
    THEN {area.geoJson.coordinates[k] : k \in DOMAIN area.geoJson.coordinates}
    ELSE {area.geoJson.coordinates[k][1] : k \in DOMAIN area.geoJson.coordinates}

\* No two edges of the closed ring that are not neighbours meet.
SimpleRing(ring) ==
    LET m == Len(ring) - 1 IN
    \A i \in 1..m : \A j \in 1..m :
        (j >= i + 2 /\ ~(i = 1 /\ j = m))
        => ~DoSegmentsIntersect(ring[i], ring[i + 1], ring[j], ring[j + 1])

\* C18: every ring of a geoJson polygon convertToGeoJSON leaves is closed,
\* has three distinct vertices or more, has every [lon, lat] in range and
\* has no two non-adjacent edges that intersect.
C18_GeoJsonRingsValid ==
    area.converted
    => \A ring \in GeoRings :
          /\ ring[1] = ring[Len(ring)]
          /\ Cardinality({ring[k] : k \in DOMAIN ring}) >= 3
          /\ \A k \in DOMAIN ring : IsValidCoordinate(ring[k][2], ring[k][1])
          /\ SimpleRing(ring)

\* The vertices "lat,lon" of a polygon string, in order, as [lon, lat].
Vertices(str) == [k \in 1..Len(str) |-> <<str[k][2], str[k][1]>>]

\* A polygon string of three or more distinct vertices, all in range, whose
\* closed ring does not intersect itself.
WellFormed(str) ==
    /\ Cardinality({Vertices(str)[k] : k \in 1..Len(str)}) >= 3
    /\ \A k \in 1..Len(str) : IsValidCoordinate(str[k][1], str[k][2])
    /\ IsValidPolygonRing(CloseRing(Vertices(str)))

\* C19: a well-formed polygon string "lat,lon ..." is converted to the ring
\* of its vertices in order as [lon, lat], followed by the closing vertex.
C19_PolygonStringToRing ==
    (area.converted /\ area.polygon # <<>> /\ WellFormed(area.polygon[1]))
    => area.geoJson = [type |-> "Polygon",
                       coordinates |-> <<CloseRing(Vertices(area.polygon[1]))>>]

\* Cycle n takes a step.
CycleStep(n) == cyc[n].pc \notin {"idle", "done"} /\ cyc'[n] # cyc[n]

\* Cycle n has ended in failure: the feed was unreachable or a write was
\* rejected.
FailedCycle(n) == cyc[n].pc = "done" /\ (~cyc[n].rssOk \/ cyc[n].errorCount > 0)

\* C21: no step of a cycle whose source is stored and active, failing or
\* not, takes away the source's timer, so a later tick starts another
\* cycle.
C21_FailedCycleKeepsTimer ==
    [][\A n \in Cycles :
          (/\ CycleStep(n)
           /\ cyc[n].src \in DOMAIN sources
           /\ sources[cyc[n].src].isActive
           /\ intervals[cyc[n].src] # NoTime)
          => intervals'[cyc[n].src] = intervals[cyc[n].src]]_vars

\* After a cycle of a source has failed, a later tick has started another.
C21_Witness ==
    \E n \in Cycles, k \in Cycles :
        /\ FailedCycle(n)
        /\ cyc[k].src = cyc[n].src
        /\ cyc[k].pc # "idle"
        /\ cyc[k].t0 > cyc[n].t0
        /\ intervals[cyc[n].src] # NoTime

\* Every info block of the document expired before t.
FullyExpired(d, t) == \A i \in DOMAIN d.info : d.info[i] < t

\* C22: findActiveAlerts never returns a record whose every info.expires
\* is in the past, whatever the stored isActive bit says.
C22_FindActiveUnexpired ==
    \A d \in qry.result : ~FullyExpired(d, qry.at)

\* The query has been answered over a store holding a fully expired alert
\* whose isActive bit is still true.
C22_Witness ==
    /\ qry.at = now
    /\ \E d \in alerts : d.isActive /\ FullyExpired(d, now) /\ d \notin qry.result

\* The documents cycle n's bulkWrite has written last.
UpdatedBy(n) ==
    {d \in alerts : /\ d.sourceId = cyc[n].src
                    /\ \E i \in DOMAIN cyc[n].ops :
                          /\ cyc[n].ops[i].identifier = d.identifier
                          /\ cyc[n].ops[i].fetchedAt = d.fetchedAt}

\* C23: when processBatch has returned, every stored alert its bulkWrite
\* updated and whose areas carry a valid polygon has a geoJson again.
C23_UpdatedAlertHasGeoJson ==
    \A n \in Cycles :
        cyc[n].pc \in {"record", "repair", "done"}
        => \A d \in UpdatedBy(n) : d.poly => d.geo

\* The latest expires of the document's info blocks is before t.
LatestExpiresBefore(d, t) == \A i \in DOMAIN d.info : d.info[i] < t

\* C24: the janitor deletes an alert only if it is inactive and both its
\* fetchedAt and its latest info.expires are older than the cutoff.
C24_JanitorDeletesOnlyOld ==
    [][CleanupDelete =>
          \A d \in alerts \ alerts' :
              /\ ~d.isActive
              /\ d.fetchedAt < jan.cutoff
              /\ LatestExpiresBefore(d, jan.cutoff)]_vars

\* C25: a cache entry is served only while younger than the TTL, and then
\* no HTTP request is issued; an entry at or beyond the TTL is never
\* served; after each insert no entry older than the TTL remains.
C25_CacheServesOnlyFresh ==
    [][/\ \A k \in Items, id \in Identifiers :
             CacheLookup(k, id) =>
                 /\ itm'[k].hit => (/\ cache[id] # NoTime
                                    /\ now - cache[id] < CACHE_TTL
                                    /\ itm'[k].pc # "http"
                                    /\ pstats' = pstats)
                 /\ (cache[id] # NoTime /\ now - cache[id] >= CACHE_TTL) => ~itm'[k].hit
       /\ \A k \in Items :
             CacheStore(k) =>
                 /\ cache'[itm[k].identifier] = now
                 /\ \A id \in Identifiers :
                       cache'[id] # NoTime => now - cache'[id] <= CACHE_TTL]_vars

\* An entry was served in the last tick before it reached the TTL, and an
\* insert made later has swept it.
C25_Witness ==
    \E j \in Items :
        /\ itm[j].hit
        /\ itm[j].age = CACHE_TTL - 1
        /\ cache[itm[j].identifier] = NoTime

\* s is an initial part of t.
IsPrefix(s, t) == Len(s) <= Len(t) /\ \A i \in DOMAIN s : s[i] = t[i]

\* C26: a request is attempted at most 3 times in total, the waits before
\* its retries are 1 s, 2 s and 4 s, and a 4xx answer is never retried.
C26_RetryPolicy ==
    /\ rq.attempts <= 3
    /\ IsPrefix(rq.waits, <<1000, 2000, 4000>>)
    /\ \A i \in DOMAIN rq.log :
          (rq.log[i] >= 400 /\ rq.log[i] < 500) => (i = Len(rq.log) /\ rq.pc # "waiting")

\* C27: one call of the parser starts at most 20 detail fetches, and the
\* k-th of them does not start before (k-1) x 100 ms after the first.
C27_ItemsPaced ==
    /\ Len(pace.starts) <= 20
    /\ \A k \in DOMAIN pace.starts : pace.starts[k] >= pace.starts[1] + (k - 1) * 100

\* C28: whenever isRunning is false the scheduler holds no timers: no
\* source has an entry in intervals and the janitor's timer is not set.
C28_NoTimersUnlessRunning == ~isRunning => NoTimers

\* C29: every live source timer is the one the intervals map records
\* under its source id, so no source id has two live timers.
C29_NoOrphanOrDuplicateTimer ==
    /\ \A x \in tmr.live : tmr.map[x.src] = x.h
    /\ \A x, y \in tmr.live : x.src = y.src => x = y

\* A source scheduled before has been scheduled anew and holds its new
\* timer, while a deleted source has lost its timer.
C29_Witness ==
    /\ \E x \in tmr.live : x.h > Cardinality(SourceIds) /\ tmr.map[x.src] = x.h
    /\ \E s \in SourceIds : s \notin DOMAIN sources /\ tmr.map[s] = 0 /\ tmr.chk[s] = 0
    /\ tmr.callbacks > 0

\* successfulFetches + failedFetches of the statistics st
Outcomes(st) == st.successfulFetches + st.failedFetches

\* C30: successfulFetches + failedFetches never exceeds totalFetches, and a
\* cycle adds at most one to their sum: at its findById, which then ends
\* the cycle, or at its parser call, which it makes once.
C30_OutcomesWithinFetches ==
    [][/\ Outcomes(stats') <= stats'.totalFetches
       /\ \A n \in Cycles :
             CycleStep(n) =>
                 /\ Outcomes(stats') - Outcomes(stats) \in {0, 1}
                 /\ Outcomes(stats') # Outcomes(stats) =>
                        \/ cyc[n].pc = "check" /\ cyc'[n].pc = "done"
                        \/ cyc[n].pc = "fetch" /\ cyc'[n].pc # "fetch"]_vars

\* Both cycles have ended; one counted an outcome, the other was skipped.
C30_Witness ==
    /\ \A n \in Cycles : cyc[n].pc = "done"
    /\ stats.totalFetches = MaxCycles
    /\ Outcomes(stats) = 1
    /\ stats.successfulFetches = 1

====
